---- MODULE Spec2Model ----
(***************************************************************************)
(* The focusless text-input engine of the desktop chat client:             *)
(* apps/desktop/src/components/ChatInput.tsx.                              *)
(*                                                                         *)
(* A string is a sequence of UTF-16 code units (the unit of String.length, *)
(* String.slice and of the stored offsets); a code unit is written as a    *)
(* TLA+ string, "a", " ", or a token such as "<TAB>".  Offsets are the     *)
(* 0-based offsets of the source.                                          *)
(*                                                                         *)
(* A step of the model is one task of the event loop: a handler together   *)
(* with the render it causes and the effects of that render.  What an      *)
(* async handler does after an await on the clipboard bridge is a later    *)
(* task, which works on the values its closure captured.                   *)
(***************************************************************************)
EXTENDS Integers, Sequences, FiniteSets, TLC

\* Longest content the model lets the buffer grow to.
MaxLen == 2
\* Most clipboard-bridge calls in flight at once.
MaxPending == 1

VARIABLES
    value,            \* prop value: the content (ChatInput.tsx:41)
    selectionStart,   \* ChatInput.tsx:232
    selectionEnd,     \* ChatInput.tsx:233
    suggestions,      \* ChatInput.tsx:229
    showSuggestions,  \* ChatInput.tsx:230
    activeIndex,      \* ChatInput.tsx:231
    mode,             \* prop mode (ChatInput.tsx:45)
    usernames,        \* ChatInput.tsx:241
    pending,          \* clipboard-bridge calls in flight, each with its closure
    ran,              \* history: <<>>, or <<the task that has just run>>
    now,              \* Date.now(), in milliseconds
    currentJobId,     \* ChatContext.tsx:33
    sendError,        \* ChatContext.tsx:35
    sentTimestampsByScopeRef,  \* ChatContext.tsx:36, the entry of the user
    sending,          \* sendMessage calls in flight, each with its locals
    published,        \* history: the messages chat.publish has accepted
    user,             \* AuthContext.tsx:23
    loading,          \* AuthContext.tsx:24
    authReady,        \* AuthContext.tsx:25
    isRefreshingRef,  \* AuthContext.tsx:26
    authSession,      \* the entry "auth" of the store (lib/store.ts:63-67)
    running,          \* async functions of the auth provider at an await
    overlapped        \* history: a refreshSession call passed the guard while
                      \* another was reading the stored session

\* The state of the chat provider (ChatContext.tsx).
chatVars == <<now, currentJobId, sendError, sentTimestampsByScopeRef, sending,
              published>>
\* The providers around the input component.
\* The state of the auth provider (AuthContext.tsx).
authVars == <<user, loading, authReady, isRefreshingRef, authSession, running,
              overlapped>>
providerVars == <<chatVars, authVars>>

vars == <<value, selectionStart, selectionEnd, suggestions, showSuggestions,
          activeIndex, mode, usernames, pending, ran, providerVars>>

-----------------------------------------------------------------------------
(* JavaScript primitives *)

Min(a, b) == IF a <= b THEN a ELSE b
Max(a, b) == IF a >= b THEN a ELSE b

\* String.prototype.slice(from, to): negative arguments count from the end,
\* both are cut to [0, length], and an inverted range is empty.
SliceIndex(s, i) == IF i < 0 THEN Max(Len(s) + i, 0) ELSE Min(i, Len(s))
Slice(s, from, to) ==
    LET a == SliceIndex(s, from)
        b == SliceIndex(s, to)
    IN  IF a >= b THEN <<>> ELSE SubSeq(s, a + 1, b)
SliceFrom(s, from) == Slice(s, from, Len(s))

\* String.prototype.lastIndexOf(ch): -1 when ch does not occur.
LastIndexOf(s, ch) ==
    LET hits == {i \in 1..Len(s) : s[i] = ch}
    IN  IF hits = {} THEN -1 ELSE (CHOOSE i \in hits : \A j \in hits : j <= i) - 1

StartsWith(s, prefix) ==
    /\ Len(prefix) <= Len(s)
    /\ SubSeq(s, 1, Len(prefix)) = prefix

UpperLetters == {"A", "B", "C", "D", "E", "F", "G", "H", "I", "J", "K", "L", "M",
                 "N", "O", "P", "Q", "R", "S", "T", "U", "V", "W", "X", "Y", "Z"}
LowerLetters == {"a", "b", "c", "d", "e", "f", "g", "h", "i", "j", "k", "l", "m",
                 "n", "o", "p", "q", "r", "s", "t", "u", "v", "w", "x", "y", "z"}
LowerOf == [A |-> "a", B |-> "b", C |-> "c", D |-> "d", E |-> "e", F |-> "f",
            G |-> "g", H |-> "h", I |-> "i", J |-> "j", K |-> "k", L |-> "l",
            M |-> "m", N |-> "n", O |-> "o", P |-> "p", Q |-> "q", R |-> "r",
            S |-> "s", T |-> "t", U |-> "u", V |-> "v", W |-> "w", X |-> "x",
            Y |-> "y", Z |-> "z"]

\* String.prototype.toLowerCase, one code unit at a time.
toLowerCaseChar(c) == IF c \in UpperLetters THEN LowerOf[c] ELSE c
toLowerCase(s) == [i \in 1..Len(s) |-> toLowerCaseChar(s[i])]

\* Code units below 0x20, and 0x7f.
ControlChars == {"<TAB>", "<LF>", "<CR>", "<ESC>", "<BS>", "<NUL>", "<DEL>"}
\* The class \s of a JavaScript regular expression.
RegexWhitespace == {" ", "<TAB>", "<LF>", "<CR>", "<VT>", "<FF>", "<NBSP>"}

-----------------------------------------------------------------------------
(* ChatInput.tsx:56-62 *)

\* Faulty variant: the upper bound is not applied.
clampNoUpper(v, min, max) == Max(min, v)
clamp(v, min, max) == Max(min, Min(max, v))

toNormalizedRange(start, end) ==
    [start |-> Min(start, end), end |-> Max(start, end)]

-----------------------------------------------------------------------------
(* Keycode resolver, ChatInput.tsx:64-212 *)

shiftedNumberMap ==
    [Digit1 |-> "!", Digit2 |-> "@", Digit3 |-> "#", Digit4 |-> "$",
     Digit5 |-> "%", Digit6 |-> "^", Digit7 |-> "&", Digit8 |-> "*",
     Digit9 |-> "(", Digit0 |-> ")"]

unshiftedNumberMap ==
    [Digit1 |-> "1", Digit2 |-> "2", Digit3 |-> "3", Digit4 |-> "4",
     Digit5 |-> "5", Digit6 |-> "6", Digit7 |-> "7", Digit8 |-> "8",
     Digit9 |-> "9", Digit0 |-> "0"]

shiftedSymbolMap ==
    [Backquote |-> "~", Minus |-> "_", Equal |-> "+", BracketLeft |-> "{",
     BracketRight |-> "}", Backslash |-> "|", Semicolon |-> ":",
     Quote |-> "\"", Comma |-> "<", Period |-> ">", Slash |-> "?"]

\* "<GRAVE>" is the grave accent U+0060.
unshiftedSymbolMap ==
    [Backquote |-> "<GRAVE>", Minus |-> "-", Equal |-> "=", BracketLeft |-> "[",
     BracketRight |-> "]", Backslash |-> "\\", Semicolon |-> ";",
     Quote |-> "'", Comma |-> ",", Period |-> ".", Slash |-> "/"]

\* code.slice(3) of the codes that match /^Key[A-Z]$/
letterOfCode ==
    [KeyA |-> "A", KeyB |-> "B", KeyC |-> "C", KeyD |-> "D", KeyE |-> "E",
     KeyF |-> "F", KeyG |-> "G", KeyH |-> "H", KeyI |-> "I", KeyJ |-> "J",
     KeyK |-> "K", KeyL |-> "L", KeyM |-> "M", KeyN |-> "N", KeyO |-> "O",
     KeyP |-> "P", KeyQ |-> "Q", KeyR |-> "R", KeyS |-> "S", KeyT |-> "T",
     KeyU |-> "U", KeyV |-> "V", KeyW |-> "W", KeyX |-> "X", KeyY |-> "Y",
     KeyZ |-> "Z"]

\* code.slice(6) of the codes "Numpad" + one digit
numpadDigitOfCode ==
    [Numpad0 |-> "0", Numpad1 |-> "1", Numpad2 |-> "2", Numpad3 |-> "3",
     Numpad4 |-> "4", Numpad5 |-> "5", Numpad6 |-> "6", Numpad7 |-> "7",
     Numpad8 |-> "8", Numpad9 |-> "9"]

numpadOperatorOfCode ==
    [NumpadAdd |-> "+", NumpadSubtract |-> "-", NumpadMultiply |-> "*",
     NumpadDivide |-> "/", NumpadDecimal |-> "."]

forceCodeMappedCodes ==
    DOMAIN shiftedNumberMap \cup DOMAIN shiftedSymbolMap
        \cup DOMAIN unshiftedSymbolMap \cup DOMAIN numpadOperatorOfCode

\* Faulty variant: with shift the digits of the numeric keypad give null.
mapPrintableCharacterNumpadUnderShift(code, shift) ==
    IF code = "Space" THEN << <<" ">> >>
    ELSE IF code \in DOMAIN letterOfCode
        THEN IF shift THEN << <<letterOfCode[code]>> >>
             ELSE << <<toLowerCaseChar(letterOfCode[code])>> >>
    ELSE IF code \in DOMAIN shiftedNumberMap
        THEN IF shift THEN << <<shiftedNumberMap[code]>> >>
             ELSE << <<unshiftedNumberMap[code]>> >>
    ELSE IF code \in DOMAIN numpadDigitOfCode
        THEN IF shift THEN <<>> ELSE << <<numpadDigitOfCode[code]>> >>
    ELSE IF code \in DOMAIN numpadOperatorOfCode
        THEN << <<numpadOperatorOfCode[code]>> >>
    ELSE IF shift /\ code \in DOMAIN shiftedSymbolMap
        THEN << <<shiftedSymbolMap[code]>> >>
    ELSE IF ~shift /\ code \in DOMAIN unshiftedSymbolMap
        THEN << <<unshiftedSymbolMap[code]>> >>
    ELSE <<>>

\* The result is <<>> for null and <<text>> for a string.
mapPrintableCharacter(code, shift) ==
    IF code = "Space" THEN << <<" ">> >>
    ELSE IF code \in DOMAIN letterOfCode
        THEN IF shift THEN << <<letterOfCode[code]>> >>
             ELSE << <<toLowerCaseChar(letterOfCode[code])>> >>
    ELSE IF code \in DOMAIN shiftedNumberMap
        THEN IF shift THEN << <<shiftedNumberMap[code]>> >>
             ELSE << <<unshiftedNumberMap[code]>> >>
    ELSE IF code \in DOMAIN numpadDigitOfCode
        THEN << <<numpadDigitOfCode[code]>> >>
    ELSE IF code \in DOMAIN numpadOperatorOfCode
        THEN << <<numpadOperatorOfCode[code]>> >>
    ELSE IF shift /\ code \in DOMAIN shiftedSymbolMap
        THEN << <<shiftedSymbolMap[code]>> >>
    ELSE IF ~shift /\ code \in DOMAIN unshiftedSymbolMap
        THEN << <<unshiftedSymbolMap[code]>> >>
    ELSE <<>>

nonTextKeyCodes ==
    {"Escape", "Enter", "NumpadEnter", "Tab", "Backspace", "Delete",
     "ArrowLeft", "ArrowRight", "ArrowUp", "ArrowDown", "Home", "End",
     "PageUp", "PageDown", "Insert", "CapsLock", "NumLock", "ScrollLock",
     "Pause", "PrintScreen", "ShiftLeft", "ShiftRight", "ControlLeft",
     "ControlRight", "AltLeft", "AltRight", "MetaLeft", "MetaRight"}

\* The codes that match /^F\d{1,2}$/, F0..F99; the keys a keyboard has.
functionKeyCodes ==
    {"F1", "F2", "F3", "F4", "F5", "F6", "F7", "F8", "F9", "F10", "F11",
     "F12", "F13", "F24"}

\* Faulty variant: 0x7f is not taken for a control character.
hasControlCharactersBelowSpace(s) ==
    \E i \in 1..Len(s) : s[i] \in ControlChars \ {"<DEL>"}

hasControlCharacters(s) == \E i \in 1..Len(s) : s[i] \in ControlChars

\* raw.replace(/\r/g, "")
stripCarriageReturns(s) == SelectSeq(s, LAMBDA c : c # "<CR>")

\* Faulty variant: the case of a letter follows caps alone, not shift.
resolveTextFromGlobalEventIgnoresShift(event) ==
    IF event.ctrl \/ event.meta \/ event.alt THEN <<>>
    ELSE IF event.code \in nonTextKeyCodes THEN <<>>
    ELSE IF event.code \in functionKeyCodes THEN <<>>
    ELSE
        LET mapped == mapPrintableCharacter(event.code, event.shift)
            normalized == IF event.text = <<>> THEN <<>>
                          ELSE SelectSeq(event.text[1], LAMBDA c : c # "<CR>")
            hasValidRaw == Len(normalized) > 0 /\ ~hasControlCharacters(normalized)
            isAsciiLetter == /\ Len(normalized) = 1
                             /\ normalized[1] \in UpperLetters \cup LowerLetters
        IN  IF event.code \in DOMAIN letterOfCode
            THEN IF hasValidRaw /\ ~isAsciiLetter
                 THEN <<normalized>>
                 ELSE IF event.caps = "true"
                      THEN << <<letterOfCode[event.code]>> >>
                      ELSE << <<toLowerCaseChar(letterOfCode[event.code])>> >>
            ELSE IF mapped # <<>> /\ event.code \in forceCodeMappedCodes
                 THEN mapped
            ELSE IF ~hasValidRaw THEN <<>>
            ELSE <<normalized>>

\* Faulty variant: the function keys are not excluded.
resolveTextFromGlobalEventOnFunctionKeys(event) ==
    IF event.ctrl \/ event.meta \/ event.alt THEN <<>>
    ELSE IF event.code \in nonTextKeyCodes THEN <<>>
    ELSE
        LET mapped == mapPrintableCharacter(event.code, event.shift)
            normalized == IF event.text = <<>> THEN <<>>
                          ELSE stripCarriageReturns(event.text[1])
            hasValidRaw == Len(normalized) > 0 /\ ~hasControlCharacters(normalized)
            isAsciiLetter == /\ Len(normalized) = 1
                             /\ normalized[1] \in UpperLetters \cup LowerLetters
        IN  IF event.code \in DOMAIN letterOfCode
            THEN IF hasValidRaw /\ ~isAsciiLetter
                 THEN <<normalized>>
                 ELSE LET letter == letterOfCode[event.code]
                          caps == (event.caps = "true")
                          uppercase == (event.shift # caps)
                      IN  IF uppercase THEN << <<letter>> >>
                          ELSE << <<toLowerCaseChar(letter)>> >>
            ELSE IF mapped # <<>> /\ event.code \in forceCodeMappedCodes
                 THEN mapped
            ELSE IF ~hasValidRaw THEN <<>>
            ELSE <<normalized>>

\* An event is a record [code, text, phase, ctrl, shift, caps, alt, meta]:
\* text is <<>> for an absent or null text and <<string>> otherwise, caps is
\* "absent", "true" or "false".  repeat and timestamp_ms are read nowhere.
resolveTextFromGlobalEvent(event) ==
    IF event.ctrl \/ event.meta \/ event.alt THEN <<>>
    ELSE IF event.code \in nonTextKeyCodes THEN <<>>
    ELSE IF event.code \in functionKeyCodes THEN <<>>
    ELSE
        LET mapped == mapPrintableCharacter(event.code, event.shift)
            normalized == IF event.text = <<>> THEN <<>>
                          ELSE stripCarriageReturns(event.text[1])
            hasValidRaw == Len(normalized) > 0 /\ ~hasControlCharacters(normalized)
            isAsciiLetter == /\ Len(normalized) = 1
                             /\ normalized[1] \in UpperLetters \cup LowerLetters
        IN  IF event.code \in DOMAIN letterOfCode
            THEN IF hasValidRaw /\ ~isAsciiLetter
                 THEN <<normalized>>
                 ELSE LET letter == letterOfCode[event.code]
                          caps == (event.caps = "true")
                          uppercase == (event.shift # caps)
                      IN  IF uppercase THEN << <<letter>> >>
                          ELSE << <<toLowerCaseChar(letter)>> >>
            ELSE IF mapped # <<>> /\ event.code \in forceCodeMappedCodes
                 THEN mapped
            ELSE IF ~hasValidRaw THEN <<>>
            ELSE <<normalized>>

-----------------------------------------------------------------------------
(* The component state.  A handler reads the values of the render whose    *)
(* closure it is (cl) and writes the current React state (cur).  deps are  *)
(* the dependencies the suggestion effect last ran with.                   *)

SuggestionDeps(s) == <<s.selectionEnd, s.selectionStart, s.usernames, s.value>>

Current ==
    [value |-> value, selectionStart |-> selectionStart,
     selectionEnd |-> selectionEnd, suggestions |-> suggestions,
     showSuggestions |-> showSuggestions, activeIndex |-> activeIndex,
     usernames |-> usernames,
     deps |-> <<selectionEnd, selectionStart, usernames, value>>]

\* lib/emoji.ts: the static shortcode table and its prefix search.
emojiTable ==
    << [shortcode |-> <<"a">>, emoji |-> <<"<E1>">>],
       [shortcode |-> <<"a", "a">>, emoji |-> <<"<E2>">>] >>
findEmojiSuggestions(query) ==
    SelectSeq(emojiTable, LAMBDA m : StartsWith(m.shortcode, query))

\* context.split(/\s/).pop() || ""
lastWordOf(context) ==
    LET ws == {i \in 1..Len(context) : context[i] \in RegexWhitespace}
        last == IF ws = {} THEN 0 ELSE CHOOSE i \in ws : \A j \in ws : j <= i
    IN  SubSeq(context, last + 1, Len(context))

\* ChatInput.tsx:246-251
\* Faulty variant: the effect leaves the offsets as they are.
clampEffectKeepsOffsets(s) == s

clampEffect(s) ==
    [s EXCEPT !.selectionStart = clamp(s.selectionStart, 0, Len(s.value)),
              !.selectionEnd = clamp(s.selectionEnd, 0, Len(s.value))]

\* Faulty variant: the usernames are not lowercased before the comparison.
suggestionEffectCaseSensitive(s) ==
    LET hasExplicitSelection == s.selectionStart # s.selectionEnd
        caret == IF hasExplicitSelection
                 THEN Max(s.selectionStart, s.selectionEnd)
                 ELSE s.selectionEnd
        context == Slice(s.value, 0, caret)
        lastWord == lastWordOf(context)
        query == toLowerCase(SliceFrom(lastWord, 1))
        mentions == SelectSeq(s.usernames,
                              LAMBDA u : StartsWith(u, query))
        emojis == findEmojiSuggestions(query)
        nextSuggestions ==
            IF StartsWith(lastWord, <<"@">>)
            THEN [i \in 1..Len(mentions) |-> [type |-> "mention", value |-> mentions[i]]]
            ELSE IF StartsWith(lastWord, <<":">>)
            THEN [i \in 1..Len(emojis) |-> [type |-> "emoji", value |-> emojis[i]]]
            ELSE <<>>
    IN  [s EXCEPT !.suggestions = nextSuggestions,
                  !.showSuggestions = (Len(nextSuggestions) > 0),
                  !.activeIndex = 0]

\* Faulty variant: an empty word offers every username.
suggestionEffectOffersOnEmptyWord(s) ==
    LET hasExplicitSelection == s.selectionStart # s.selectionEnd
        caret == IF hasExplicitSelection
                 THEN Max(s.selectionStart, s.selectionEnd)
                 ELSE s.selectionEnd
        context == Slice(s.value, 0, caret)
        lastWord == lastWordOf(context)
        query == toLowerCase(SliceFrom(lastWord, 1))
        mentions == SelectSeq(s.usernames,
                              LAMBDA u : StartsWith(toLowerCase(u), query))
        emojis == findEmojiSuggestions(query)
        nextSuggestions ==
            IF StartsWith(lastWord, <<"@">>) \/ lastWord = <<>>
            THEN [i \in 1..Len(mentions) |-> [type |-> "mention", value |-> mentions[i]]]
            ELSE IF StartsWith(lastWord, <<":">>)
            THEN [i \in 1..Len(emojis) |-> [type |-> "emoji", value |-> emojis[i]]]
            ELSE <<>>
    IN  [s EXCEPT !.suggestions = nextSuggestions,
                  !.showSuggestions = (Len(nextSuggestions) > 0),
                  !.activeIndex = 0]

\* Faulty variant: activeIndex is not reset.
suggestionEffectKeepsActiveIndex(s) ==
    LET hasExplicitSelection == s.selectionStart # s.selectionEnd
        caret == IF hasExplicitSelection
                 THEN Max(s.selectionStart, s.selectionEnd)
                 ELSE s.selectionEnd
        context == Slice(s.value, 0, caret)
        lastWord == lastWordOf(context)
        query == toLowerCase(SliceFrom(lastWord, 1))
        mentions == SelectSeq(s.usernames,
                              LAMBDA u : StartsWith(toLowerCase(u), query))
        emojis == findEmojiSuggestions(query)
        nextSuggestions ==
            IF StartsWith(lastWord, <<"@">>)
            THEN [i \in 1..Len(mentions) |-> [type |-> "mention", value |-> mentions[i]]]
            ELSE IF StartsWith(lastWord, <<":">>)
            THEN [i \in 1..Len(emojis) |-> [type |-> "emoji", value |-> emojis[i]]]
            ELSE <<>>
    IN  [s EXCEPT !.suggestions = nextSuggestions,
                  !.showSuggestions = (Len(nextSuggestions) > 0)]

\* ChatInput.tsx:253-281
suggestionEffect(s) ==
    LET hasExplicitSelection == s.selectionStart # s.selectionEnd
        caret == IF hasExplicitSelection
                 THEN Max(s.selectionStart, s.selectionEnd)
                 ELSE s.selectionEnd
        context == Slice(s.value, 0, caret)
        lastWord == lastWordOf(context)
        query == toLowerCase(SliceFrom(lastWord, 1))
        mentions == SelectSeq(s.usernames,
                              LAMBDA u : StartsWith(toLowerCase(u), query))
        emojis == findEmojiSuggestions(query)
        nextSuggestions ==
            IF StartsWith(lastWord, <<"@">>)
            THEN [i \in 1..Len(mentions) |-> [type |-> "mention", value |-> mentions[i]]]
            ELSE IF StartsWith(lastWord, <<":">>)
            THEN [i \in 1..Len(emojis) |-> [type |-> "emoji", value |-> emojis[i]]]
            ELSE <<>>
    IN  [s EXCEPT !.suggestions = nextSuggestions,
                  !.showSuggestions = (Len(nextSuggestions) > 0),
                  !.activeIndex = 0]

\* A render of the state s and the effects that follow it, to quiescence.
Render(s) ==
    LET c == clampEffect(s)
    IN  IF SuggestionDeps(s) # s.deps \/ SuggestionDeps(c) # s.deps
        THEN [suggestionEffect(c) EXCEPT !.deps = SuggestionDeps(c)]
        ELSE c

\* ChatInput.tsx:283-286
updateSelection(cur, cl, start, end) ==
    [cur EXCEPT !.selectionStart = clamp(start, 0, Len(cl.value)),
                !.selectionEnd = clamp(end, 0, Len(cl.value))]

\* ChatInput.tsx:288-300; flushSync renders before it returns.
applyValueAndSelection(cur, nextValue, nextSelectionStart, nextSelectionEnd) ==
    Render([cur EXCEPT
        !.value = nextValue,
        !.selectionStart = clamp(nextSelectionStart, 0, Len(nextValue)),
        !.selectionEnd = clamp(nextSelectionEnd, 0, Len(nextValue))])

\* Faulty variant: the caret is counted from selectionStart, not from the lower edge.
replaceSelectionWithCaretFromAnchor(cur, cl, insertText) ==
    LET normalized == toNormalizedRange(cl.selectionStart, cl.selectionEnd)
        nextValue == Slice(cl.value, 0, normalized.start) \o insertText
                        \o SliceFrom(cl.value, normalized.end)
        nextCaret == cl.selectionStart + Len(insertText)
    IN  applyValueAndSelection(cur, nextValue, nextCaret, nextCaret)

\* ChatInput.tsx:302-308
replaceSelectionWith(cur, cl, insertText) ==
    LET normalized == toNormalizedRange(cl.selectionStart, cl.selectionEnd)
        nextValue == Slice(cl.value, 0, normalized.start) \o insertText
                        \o SliceFrom(cl.value, normalized.end)
        nextCaret == normalized.start + Len(insertText)
    IN  applyValueAndSelection(cur, nextValue, nextCaret, nextCaret)

\* ChatInput.tsx:310-334
insertSuggestion(cur, cl, suggestion) ==
    LET normalized == toNormalizedRange(cl.selectionStart, cl.selectionEnd)
        before == Slice(cl.value, 0, normalized.start)
        after == SliceFrom(cl.value, normalized.end)
        lastWhitespace == Max(Max(LastIndexOf(before, " "),
                                  LastIndexOf(before, "<TAB>")),
                              LastIndexOf(before, "<LF>"))
        wordStart == lastWhitespace + 1
        replacement == IF suggestion.type = "mention"
                       THEN <<"@">> \o suggestion.value
                       ELSE suggestion.value.emoji
        nextBefore == Slice(before, 0, wordStart) \o replacement \o <<" ">>
        nextValue == nextBefore \o after
        nextCaret == Len(nextBefore)
    IN  [applyValueAndSelection(cur, nextValue, nextCaret, nextCaret)
            EXCEPT !.showSuggestions = FALSE]

\* Faulty variant: a non-empty selection is not collapsed to its edge, the caret
\* steps on from its upper edge.
moveCaretStepsFromSelection(cur, cl, delta, extend) ==
    LET normalized == toNormalizedRange(cl.selectionStart, cl.selectionEnd)
    IN  IF extend
        THEN updateSelection(cur, cl, cl.selectionStart,
                             clamp(cl.selectionEnd + delta, 0, Len(cl.value)))
        ELSE LET next == clamp(normalized.end + delta, 0, Len(cl.value))
             IN  updateSelection(cur, cl, next, next)

\* Faulty variant: extending works on the normalized pair.
moveCaretExtendsNormalized(cur, cl, delta, extend) ==
    LET normalized == toNormalizedRange(cl.selectionStart, cl.selectionEnd)
    IN  IF extend
        THEN updateSelection(cur, cl, normalized.start,
                             clamp(normalized.end + delta, 0, Len(cl.value)))
        ELSE IF cl.selectionStart # cl.selectionEnd
        THEN LET collapsedTo == IF delta < 0 THEN normalized.start
                                ELSE normalized.end
             IN  updateSelection(cur, cl, collapsedTo, collapsedTo)
        ELSE LET next == clamp(normalized.end + delta, 0, Len(cl.value))
             IN  updateSelection(cur, cl, next, next)

\* ChatInput.tsx:336-352
moveCaret(cur, cl, delta, extend) ==
    LET normalized == toNormalizedRange(cl.selectionStart, cl.selectionEnd)
    IN  IF extend
        THEN updateSelection(cur, cl, cl.selectionStart,
                             clamp(cl.selectionEnd + delta, 0, Len(cl.value)))
        ELSE IF cl.selectionStart # cl.selectionEnd
        THEN LET collapsedTo == IF delta < 0 THEN normalized.start
                                ELSE normalized.end
             IN  updateSelection(cur, cl, collapsedTo, collapsedTo)
        ELSE LET next == clamp(normalized.end + delta, 0, Len(cl.value))
             IN  updateSelection(cur, cl, next, next)

\* Faulty variant: extending keeps selectionEnd as the anchor.
moveCaretToBoundaryAnchorsAtEnd(cur, cl, toEnd, extend) ==
    LET next == IF toEnd THEN Len(cl.value) ELSE 0
    IN  IF extend THEN updateSelection(cur, cl, cl.selectionEnd, next)
        ELSE updateSelection(cur, cl, next, next)

\* ChatInput.tsx:354-361
moveCaretToBoundary(cur, cl, toEnd, extend) ==
    LET next == IF toEnd THEN Len(cl.value) ELSE 0
    IN  IF extend THEN updateSelection(cur, cl, cl.selectionStart, next)
        ELSE updateSelection(cur, cl, next, next)

\* Faulty variant: a selection is not looked at, one unit before its lower edge goes.
deleteBackwardIgnoresSelection(cur, cl) ==
    LET normalized == toNormalizedRange(cl.selectionStart, cl.selectionEnd)
    IN  IF normalized.start = 0 THEN cur
        ELSE applyValueAndSelection(cur,
                Slice(cl.value, 0, normalized.start - 1)
                    \o SliceFrom(cl.value, normalized.start),
                normalized.start - 1, normalized.start - 1)

\* ChatInput.tsx:363-375
deleteBackward(cur, cl) ==
    LET normalized == toNormalizedRange(cl.selectionStart, cl.selectionEnd)
    IN  IF normalized.start # normalized.end
        THEN replaceSelectionWith(cur, cl, <<>>)
        ELSE IF normalized.start = 0 THEN cur
        ELSE applyValueAndSelection(cur,
                Slice(cl.value, 0, normalized.start - 1)
                    \o SliceFrom(cl.value, normalized.start),
                normalized.start - 1, normalized.start - 1)

\* Faulty variant: a selection is not looked at, one unit after its upper edge goes.
deleteForwardIgnoresSelection(cur, cl) ==
    LET normalized == toNormalizedRange(cl.selectionStart, cl.selectionEnd)
    IN  IF normalized.end >= Len(cl.value) THEN cur
        ELSE applyValueAndSelection(cur,
                Slice(cl.value, 0, normalized.end)
                    \o SliceFrom(cl.value, normalized.end + 1),
                normalized.end, normalized.end)

\* ChatInput.tsx:377-387
deleteForward(cur, cl) ==
    LET normalized == toNormalizedRange(cl.selectionStart, cl.selectionEnd)
    IN  IF normalized.start # normalized.end
        THEN replaceSelectionWith(cur, cl, <<>>)
        ELSE IF normalized.end >= Len(cl.value) THEN cur
        ELSE applyValueAndSelection(cur,
                Slice(cl.value, 0, normalized.end)
                    \o SliceFrom(cl.value, normalized.end + 1),
                normalized.end, normalized.end)

-----------------------------------------------------------------------------
(* Key event interpreter, ChatInput.tsx:389-527 *)

\* What a render's closure holds of the text state.
ClosureOf(cur) ==
    [value |-> cur.value, selectionStart |-> cur.selectionStart,
     selectionEnd |-> cur.selectionEnd]

\* Faulty variant: KeyA is no clipboard shortcut.
handleClipboardShortcutWithoutSelectAll(cur, event) ==
    LET isCtrlOrMeta == event.ctrl \/ event.meta
        normalized == toNormalizedRange(cur.selectionStart, cur.selectionEnd)
        selectedText == Slice(cur.value, normalized.start, normalized.end)
        done(r, s) == [returned |-> r, state |-> s, invoke |-> <<>>]
        await(command, arg) ==
            [returned |-> "awaiting", state |-> cur,
             invoke |-> <<[command |-> command, code |-> event.code,
                           arg |-> arg, closure |-> ClosureOf(cur), age |-> 0]>>]
    IN  IF ~isCtrlOrMeta \/ event.alt \/ event.phase # "down"
        THEN done("false", cur)
        ELSE IF event.code \in {"KeyC", "KeyX"}
        THEN IF selectedText = <<>> THEN done("true", cur)
             ELSE await("write_clipboard_text", selectedText)
        ELSE IF event.code = "KeyV"
        THEN await("read_clipboard_text", <<>>)
        ELSE done("false", cur)

\* Faulty variant: the selected text is taken between selectionStart and
\* selectionEnd as they are, without ordering them.
handleClipboardShortcutSlicesUnordered(cur, event) ==
    LET isCtrlOrMeta == event.ctrl \/ event.meta
        selectedText == Slice(cur.value, cur.selectionStart, cur.selectionEnd)
        done(r, s) == [returned |-> r, state |-> s, invoke |-> <<>>]
        await(command, arg) ==
            [returned |-> "awaiting", state |-> cur,
             invoke |-> <<[command |-> command, code |-> event.code,
                           arg |-> arg, closure |-> ClosureOf(cur), age |-> 0]>>]
    IN  IF ~isCtrlOrMeta \/ event.alt \/ event.phase # "down"
        THEN done("false", cur)
        ELSE IF event.code = "KeyA"
        THEN done("true", updateSelection(cur, cur, 0, Len(cur.value)))
        ELSE IF event.code \in {"KeyC", "KeyX"}
        THEN IF selectedText = <<>> THEN done("true", cur)
             ELSE await("write_clipboard_text", selectedText)
        ELSE IF event.code = "KeyV"
        THEN await("read_clipboard_text", <<>>)
        ELSE done("false", cur)

\* ChatInput.tsx:389-434.  returned is "true" or "false", or "awaiting" when
\* the handler stops at an await on the bridge call invoke[1].
handleClipboardShortcut(cur, event) ==
    LET isCtrlOrMeta == event.ctrl \/ event.meta
        normalized == toNormalizedRange(cur.selectionStart, cur.selectionEnd)
        selectedText == Slice(cur.value, normalized.start, normalized.end)
        done(r, s) == [returned |-> r, state |-> s, invoke |-> <<>>]
        await(command, arg) ==
            [returned |-> "awaiting", state |-> cur,
             invoke |-> <<[command |-> command, code |-> event.code,
                           arg |-> arg, closure |-> ClosureOf(cur), age |-> 0]>>]
    IN  IF ~isCtrlOrMeta \/ event.alt \/ event.phase # "down"
        THEN done("false", cur)
        ELSE IF event.code = "KeyA"
        THEN done("true", updateSelection(cur, cur, 0, Len(cur.value)))
        ELSE IF event.code = "KeyC"
        THEN IF selectedText = <<>> THEN done("true", cur)
             ELSE await("write_clipboard_text", selectedText)
        ELSE IF event.code = "KeyX"
        THEN IF selectedText = <<>> THEN done("true", cur)
             ELSE await("write_clipboard_text", selectedText)
        ELSE IF event.code = "KeyV"
        THEN await("read_clipboard_text", <<>>)
        ELSE done("false", cur)

\* The result of the key handler: outcome is the value its promise resolves
\* to, "pending" while it waits for the bridge, "rejected" if it throws.
KeyResult(o, s) == [outcome |-> o, state |-> s, invoke |-> <<>>]

\* Faulty variant: Enter submits only while no suggestions are visible.
handleStructuralKeySubmitsWhenHidden(cur, event) ==
    LET visible == cur.showSuggestions /\ Len(cur.suggestions) > 0
    IN  IF event.code = "Escape" THEN <<KeyResult("cancel", cur)>>
        ELSE IF event.code = "ArrowDown" /\ visible
        THEN <<KeyResult("none",
                [cur EXCEPT !.activeIndex = (@ + 1) % Len(cur.suggestions)])>>
        ELSE IF event.code = "ArrowUp" /\ visible
        THEN <<KeyResult("none",
                [cur EXCEPT !.activeIndex =
                    IF @ = 0 THEN Len(cur.suggestions) - 1 ELSE @ - 1])>>
        ELSE IF event.code = "Tab" /\ visible
        THEN IF cur.activeIndex + 1 \in DOMAIN cur.suggestions
             THEN <<KeyResult("none",
                    insertSuggestion(cur, cur, cur.suggestions[cur.activeIndex + 1]))>>
             ELSE <<KeyResult("rejected", cur)>>
        ELSE IF event.code \in {"Enter", "NumpadEnter"}
        THEN <<KeyResult(IF visible THEN "none" ELSE "submit", cur)>>
        ELSE IF event.code = "Backspace"
        THEN <<KeyResult("none", deleteBackward(cur, cur))>>
        ELSE IF event.code = "Delete"
        THEN <<KeyResult("none", deleteForward(cur, cur))>>
        ELSE IF event.code = "ArrowLeft"
        THEN <<KeyResult("none", moveCaret(cur, cur, -1, event.shift))>>
        ELSE IF event.code = "ArrowRight"
        THEN <<KeyResult("none", moveCaret(cur, cur, 1, event.shift))>>
        ELSE IF event.code = "Home"
        THEN <<KeyResult("none", moveCaretToBoundary(cur, cur, FALSE, event.shift))>>
        ELSE IF event.code = "End"
        THEN <<KeyResult("none", moveCaretToBoundary(cur, cur, TRUE, event.shift))>>
        ELSE <<>>
\* Faulty variant: ArrowUp stops at the first candidate.
handleStructuralKeyArrowUpStopsAtFirst(cur, event) ==
    LET visible == cur.showSuggestions /\ Len(cur.suggestions) > 0
    IN  IF event.code = "Escape" THEN <<KeyResult("cancel", cur)>>
        ELSE IF event.code = "ArrowDown" /\ visible
        THEN <<KeyResult("none",
                [cur EXCEPT !.activeIndex = (@ + 1) % Len(cur.suggestions)])>>
        ELSE IF event.code = "ArrowUp" /\ visible
        THEN <<KeyResult("none",
                [cur EXCEPT !.activeIndex =
                    IF @ = 0 THEN 0 ELSE @ - 1])>>
        ELSE IF event.code = "Tab" /\ visible
        THEN IF cur.activeIndex + 1 \in DOMAIN cur.suggestions
             THEN <<KeyResult("none",
                    insertSuggestion(cur, cur, cur.suggestions[cur.activeIndex + 1]))>>
             ELSE <<KeyResult("rejected", cur)>>
        ELSE IF event.code \in {"Enter", "NumpadEnter"}
        THEN <<KeyResult("submit", cur)>>
        ELSE IF event.code = "Backspace"
        THEN <<KeyResult("none", deleteBackward(cur, cur))>>
        ELSE IF event.code = "Delete"
        THEN <<KeyResult("none", deleteForward(cur, cur))>>
        ELSE IF event.code = "ArrowLeft"
        THEN <<KeyResult("none", moveCaret(cur, cur, -1, event.shift))>>
        ELSE IF event.code = "ArrowRight"
        THEN <<KeyResult("none", moveCaret(cur, cur, 1, event.shift))>>
        ELSE IF event.code = "Home"
        THEN <<KeyResult("none", moveCaretToBoundary(cur, cur, FALSE, event.shift))>>
        ELSE IF event.code = "End"
        THEN <<KeyResult("none", moveCaretToBoundary(cur, cur, TRUE, event.shift))>>
        ELSE <<>>
\* Faulty variant: Escape clears the content.
handleStructuralKeyEscapeClears(cur, event) ==
    LET visible == cur.showSuggestions /\ Len(cur.suggestions) > 0
    IN  IF event.code = "Escape"
        THEN <<KeyResult("cancel", applyValueAndSelection(cur, <<>>, 0, 0))>>
        ELSE IF event.code = "ArrowDown" /\ visible
        THEN <<KeyResult("none",
                [cur EXCEPT !.activeIndex = (@ + 1) % Len(cur.suggestions)])>>
        ELSE IF event.code = "ArrowUp" /\ visible
        THEN <<KeyResult("none",
                [cur EXCEPT !.activeIndex =
                    IF @ = 0 THEN Len(cur.suggestions) - 1 ELSE @ - 1])>>
        ELSE IF event.code = "Tab" /\ visible
        THEN IF cur.activeIndex + 1 \in DOMAIN cur.suggestions
             THEN <<KeyResult("none",
                    insertSuggestion(cur, cur, cur.suggestions[cur.activeIndex + 1]))>>
             ELSE <<KeyResult("rejected", cur)>>
        ELSE IF event.code \in {"Enter", "NumpadEnter"}
        THEN <<KeyResult("submit", cur)>>
        ELSE IF event.code = "Backspace"
        THEN <<KeyResult("none", deleteBackward(cur, cur))>>
        ELSE IF event.code = "Delete"
        THEN <<KeyResult("none", deleteForward(cur, cur))>>
        ELSE IF event.code = "ArrowLeft"
        THEN <<KeyResult("none", moveCaret(cur, cur, -1, event.shift))>>
        ELSE IF event.code = "ArrowRight"
        THEN <<KeyResult("none", moveCaret(cur, cur, 1, event.shift))>>
        ELSE IF event.code = "Home"
        THEN <<KeyResult("none", moveCaretToBoundary(cur, cur, FALSE, event.shift))>>
        ELSE IF event.code = "End"
        THEN <<KeyResult("none", moveCaretToBoundary(cur, cur, TRUE, event.shift))>>
        ELSE <<>>

\* Faulty variant: Tab takes suggestions[activeIndex] whether or not the
\* list is shown.
handleStructuralKeyTabUnguarded(cur, event) ==
    LET visible == cur.showSuggestions /\ Len(cur.suggestions) > 0
    IN  IF event.code = "Escape" THEN <<KeyResult("cancel", cur)>>
        ELSE IF event.code = "ArrowDown" /\ visible
        THEN <<KeyResult("none",
                [cur EXCEPT !.activeIndex = (@ + 1) % Len(cur.suggestions)])>>
        ELSE IF event.code = "ArrowUp" /\ visible
        THEN <<KeyResult("none",
                [cur EXCEPT !.activeIndex =
                    IF @ = 0 THEN Len(cur.suggestions) - 1 ELSE @ - 1])>>
        ELSE IF event.code = "Tab"
        THEN IF cur.activeIndex + 1 \in DOMAIN cur.suggestions
             THEN <<KeyResult("none",
                    insertSuggestion(cur, cur, cur.suggestions[cur.activeIndex + 1]))>>
             ELSE <<KeyResult("rejected", cur)>>
        ELSE IF event.code \in {"Enter", "NumpadEnter"}
        THEN <<KeyResult("submit", cur)>>
        ELSE IF event.code = "Backspace"
        THEN <<KeyResult("none", deleteBackward(cur, cur))>>
        ELSE IF event.code = "Delete"
        THEN <<KeyResult("none", deleteForward(cur, cur))>>
        ELSE IF event.code = "ArrowLeft"
        THEN <<KeyResult("none", moveCaret(cur, cur, -1, event.shift))>>
        ELSE IF event.code = "ArrowRight"
        THEN <<KeyResult("none", moveCaret(cur, cur, 1, event.shift))>>
        ELSE IF event.code = "Home"
        THEN <<KeyResult("none", moveCaretToBoundary(cur, cur, FALSE, event.shift))>>
        ELSE IF event.code = "End"
        THEN <<KeyResult("none", moveCaretToBoundary(cur, cur, TRUE, event.shift))>>
        ELSE <<>>

\* ChatInput.tsx:444-495, the keys handled by their code: <<>> when the
\* event is none of them, <<result>> otherwise.
handleStructuralKey(cur, event) ==
    LET visible == cur.showSuggestions /\ Len(cur.suggestions) > 0
    IN  IF event.code = "Escape" THEN <<KeyResult("cancel", cur)>>
        ELSE IF event.code = "ArrowDown" /\ visible
        THEN <<KeyResult("none",
                [cur EXCEPT !.activeIndex = (@ + 1) % Len(cur.suggestions)])>>
        ELSE IF event.code = "ArrowUp" /\ visible
        THEN <<KeyResult("none",
                [cur EXCEPT !.activeIndex =
                    IF @ = 0 THEN Len(cur.suggestions) - 1 ELSE @ - 1])>>
        ELSE IF event.code = "Tab" /\ visible
        THEN IF cur.activeIndex + 1 \in DOMAIN cur.suggestions
             THEN <<KeyResult("none",
                    insertSuggestion(cur, cur, cur.suggestions[cur.activeIndex + 1]))>>
             ELSE <<KeyResult("rejected", cur)>>
        ELSE IF event.code \in {"Enter", "NumpadEnter"}
        THEN <<KeyResult("submit", cur)>>
        ELSE IF event.code = "Backspace"
        THEN <<KeyResult("none", deleteBackward(cur, cur))>>
        ELSE IF event.code = "Delete"
        THEN <<KeyResult("none", deleteForward(cur, cur))>>
        ELSE IF event.code = "ArrowLeft"
        THEN <<KeyResult("none", moveCaret(cur, cur, -1, event.shift))>>
        ELSE IF event.code = "ArrowRight"
        THEN <<KeyResult("none", moveCaret(cur, cur, 1, event.shift))>>
        ELSE IF event.code = "Home"
        THEN <<KeyResult("none", moveCaretToBoundary(cur, cur, FALSE, event.shift))>>
        ELSE IF event.code = "End"
        THEN <<KeyResult("none", moveCaretToBoundary(cur, cur, TRUE, event.shift))>>
        ELSE <<>>

\* ChatInput.tsx:497-507, text production.
handleTextKey(cur, event) ==
    LET textFromEvent == resolveTextFromGlobalEvent(event)
        printable == mapPrintableCharacter(event.code, event.shift)
    IN  IF textFromEvent # <<>>
        THEN KeyResult("none", replaceSelectionWith(cur, cur, textFromEvent[1]))
        ELSE IF printable # <<>>
        THEN KeyResult("none", replaceSelectionWith(cur, cur, printable[1]))
        ELSE KeyResult("none", cur)

\* Faulty variant: the phase of the event is not looked at.
handleFocuslessGlobalKeyAnyPhase(cur, event) ==
    LET clip == handleClipboardShortcut(cur, event)
        structural == handleStructuralKey(cur, event)
    IN  IF clip.returned = "awaiting"
        THEN [outcome |-> "pending", state |-> clip.state, invoke |-> clip.invoke]
        ELSE IF clip.returned = "true" THEN KeyResult("none", clip.state)
        ELSE IF event.ctrl \/ event.meta \/ event.alt THEN KeyResult("none", cur)
        ELSE IF structural # <<>> THEN structural[1]
        ELSE handleTextKey(cur, event)
\* Faulty variant: shortcuts and held modifiers are not looked at.
handleFocuslessGlobalKeyWithoutShortcuts(cur, event) ==
    LET structural == handleStructuralKey(cur, event)
    IN  IF event.phase # "down" THEN KeyResult("none", cur)
        ELSE IF structural # <<>> THEN structural[1]
        ELSE handleTextKey(cur, event)
\* Faulty variant: a repeated key-down is dropped.
handleFocuslessGlobalKeyDropsRepeats(cur, event) ==
    LET clip == handleClipboardShortcut(cur, event)
        structural == handleStructuralKey(cur, event)
    IN  IF event.phase # "down" \/ event.repeat THEN KeyResult("none", cur)
        ELSE IF clip.returned = "awaiting"
        THEN [outcome |-> "pending", state |-> clip.state, invoke |-> clip.invoke]
        ELSE IF clip.returned = "true" THEN KeyResult("none", clip.state)
        ELSE IF event.ctrl \/ event.meta \/ event.alt THEN KeyResult("none", cur)
        ELSE IF structural # <<>> THEN structural[1]
        ELSE handleTextKey(cur, event)

\* ChatInput.tsx:436-511
handleFocuslessGlobalKey(cur, event) ==
    LET clip == handleClipboardShortcut(cur, event)
        structural == handleStructuralKey(cur, event)
    IN  IF event.phase # "down" THEN KeyResult("none", cur)
        ELSE IF clip.returned = "awaiting"
        THEN [outcome |-> "pending", state |-> clip.state, invoke |-> clip.invoke]
        ELSE IF clip.returned = "true" THEN KeyResult("none", clip.state)
        ELSE IF event.ctrl \/ event.meta \/ event.alt THEN KeyResult("none", cur)
        ELSE IF structural # <<>> THEN structural[1]
        ELSE handleTextKey(cur, event)

\* Faulty variant: the mode is not looked at.
handleGlobalKeyAnyMode(cur, m, event) == handleFocuslessGlobalKey(cur, event)
\* ChatInput.tsx:521-524
handleGlobalKey(cur, m, event) ==
    IF m # "focusless"
    THEN KeyResult("none", cur)
    ELSE handleFocuslessGlobalKey(cur, event)

\* Faulty variant: a cut whose write failed removes nothing.
afterClipboardAwaitFailedCutKeeps(cur, call, result) ==
    IF call.code = "KeyC" THEN cur
    ELSE IF call.code = "KeyX"
    THEN IF result = <<FALSE>> THEN cur
         ELSE replaceSelectionWith(cur, call.closure, <<>>)
    ELSE LET clipboard == IF result = <<>> THEN <<>> ELSE result[1]
         IN  IF clipboard = <<>> THEN cur
             ELSE replaceSelectionWith(cur, call.closure, clipboard)

\* The continuation of handleClipboardShortcut after its await, run with the
\* values its closure captured (ChatInput.tsx:407-410, 417-421, 428-430).
\* result is <<>> if the read failed and <<text>> if it returned text; for a
\* write it is <<TRUE>> if the write succeeded and <<FALSE>> if it failed.
afterClipboardAwait(cur, call, result) ==
    IF call.code = "KeyC" THEN cur
    ELSE IF call.code = "KeyX" THEN replaceSelectionWith(cur, call.closure, <<>>)
    ELSE LET clipboard == IF result = <<>> THEN <<>> ELSE result[1]
         IN  IF clipboard = <<>> THEN cur
             ELSE replaceSelectionWith(cur, call.closure, clipboard)

-----------------------------------------------------------------------------
(* Inputs *)

\* Most code units of a content that was typed, pasted or reported by the
\* native field, and how many more the completion of a suggestion may add.
MaxCompletion == 1

\* The code units the inputs of the model put into the buffer.
Alphabet == {"a", "@", " "}
Strings == UNION {[1..n -> Alphabet] : n \in 0..MaxLen}
InAlphabet(s) == \A i \in 1..Len(s) : s[i] \in Alphabet

Modifiers(ctrl, shift, alt, meta) ==
    [ctrl |-> ctrl, shift |-> shift, alt |-> alt, meta |-> meta]
NoModifiers == Modifiers(FALSE, FALSE, FALSE, FALSE)
ShiftOnly == Modifiers(FALSE, TRUE, FALSE, FALSE)
CtrlOnly == Modifiers(TRUE, FALSE, FALSE, FALSE)
ModifierSets ==
    {NoModifiers, ShiftOnly, CtrlOnly,
     Modifiers(FALSE, FALSE, TRUE, FALSE), Modifiers(FALSE, FALSE, FALSE, TRUE),
     Modifiers(TRUE, TRUE, FALSE, FALSE), Modifiers(TRUE, FALSE, TRUE, FALSE)}

KeyEvent(code, text, phase, m, caps) ==
    [code |-> code, text |-> text, phase |-> phase, ctrl |-> m.ctrl,
     shift |-> m.shift, caps |-> caps, alt |-> m.alt, meta |-> m.meta]

Codes ==
    {"Escape", "Enter", "NumpadEnter", "Tab", "Backspace", "Delete",
     "ArrowLeft", "ArrowRight", "ArrowUp", "ArrowDown", "Home", "End",
     "F1", "ShiftLeft", "KeyA", "KeyC", "KeyX", "KeyV", "Digit2", "Space"}

\* Key-down events without composed text, key-up events, and key-down events
\* that carry a composed text.
Events ==
    {KeyEvent(c, <<>>, "down", m, "absent") : c \in Codes, m \in ModifierSets}
    \cup {KeyEvent(c, <<>>, "up", m, "absent") :
            c \in {"Escape", "Enter", "Backspace", "KeyA", "KeyX", "KeyV"},
            m \in {NoModifiers, CtrlOnly}}
    \cup {KeyEvent("KeyA", << <<"A">> >>, "down", NoModifiers, "false"),
          KeyEvent("KeyA", <<>>, "down", ShiftOnly, "true"),
          KeyEvent("KeyA", << <<"a">> >>, "up", NoModifiers, "absent"),
          KeyEvent("Digit2", << <<"a">> >>, "down", ShiftOnly, "absent"),
          KeyEvent("Space", << <<"@">> >>, "down", NoModifiers, "absent"),
          KeyEvent("IntlBackslash", << <<"a">> >>, "down", NoModifiers, "absent"),
          KeyEvent("IntlBackslash", << <<"<CR>">> >>, "down", NoModifiers, "absent"),
          KeyEvent("IntlBackslash", << <<"<TAB>">> >>, "down", NoModifiers, "absent"),
          KeyEvent("F1", << <<"a">> >>, "down", NoModifiers, "absent"),
          KeyEvent("Tab", << <<"<TAB>">> >>, "down", NoModifiers, "absent"),
          KeyEvent("KeyV", << <<"a">> >>, "down", CtrlOnly, "absent")}

\* What a read of the system clipboard returns.
ClipboardTexts == {<<>>, <<"a">>, <<"@", "a">>}

\* The de-duplicated author names of the messages (ChatInput.tsx:241-244).
UsernameLists == {<< <<"a">>, <<"a", "a">> >>, << <<"a", "a">> >>}

\* Tasks that run while a bridge call is in flight make it one task older;
\* the model lets a call be overtaken by MaxAge tasks.
MaxAge == 1
Aged(calls) == [i \in DOMAIN calls |-> [calls[i] EXCEPT !.age = @ + 1]]
MayOvertake == \A i \in DOMAIN pending : pending[i].age < MaxAge
Without(calls, i) == SubSeq(calls, 1, i - 1) \o SubSeq(calls, i + 1, Len(calls))

\* The cap on the content an inserting task leaves.
Fits(next, limit) == next = value \/ (Len(next) <= limit /\ InAlphabet(next))

-----------------------------------------------------------------------------
(* The state machine *)

\* The null of a state that holds a message or null.
null == <<>>
\* The chat provider as it is constructed (ChatContext.tsx:33-36).
ChatMounted ==
    /\ now = 0
    /\ currentJobId = "global"
    /\ sendError = null
    /\ sentTimestampsByScopeRef = <<>>
    /\ sending = <<>>
    /\ published = <<>>
\* An async function of the auth provider that waits at an await: the
\* function the event loop entered (loadAuth of AuthContext.tsx:88-105, the
\* login mutation with its onSuccess of 73-78, or the interval callback of
\* 147-151), the await it waits at, and the locals of refreshSession.
Waiting(fn, at) ==
    [fn |-> fn, at |-> at, clearOnAnyFailure |-> FALSE, saved |-> null,
     data |-> null]
\* The auth provider as it is constructed, with a store that holds the
\* session `stored`: the state of AuthContext.tsx:23-26 and loadAuth started
\* by the effect of 87-112, waiting for the store.
AuthMounted(stored) ==
    /\ user = null
    /\ loading = FALSE
    /\ authReady = FALSE
    /\ isRefreshingRef = FALSE
    /\ authSession = stored
    /\ running = <<Waiting("loadAuth", "loadAuth:getAuthSession")>>
    /\ overlapped = FALSE
ProvidersMounted == ChatMounted /\ AuthMounted(null)

Init ==
    /\ value = <<>>
    /\ selectionStart = 0
    /\ selectionEnd = 0
    /\ suggestions = <<>>
    /\ showSuggestions = FALSE
    /\ activeIndex = 0
    /\ mode \in {"ime", "focusless"}
    /\ usernames \in UsernameLists
    /\ pending = <<>>
    /\ ran = <<>>
    /\ ProvidersMounted

\* The React state after the task that ends in state s, rendered.
Commit(s) ==
    LET r == Render(s)
    IN  /\ value' = r.value
        /\ selectionStart' = r.selectionStart
        /\ selectionEnd' = r.selectionEnd
        /\ suggestions' = r.suggestions
        /\ showSuggestions' = r.showSuggestions
        /\ activeIndex' = r.activeIndex

\* The state a task starts in, kept for the record of the task.
Before ==
    [value |-> value, selectionStart |-> selectionStart,
     selectionEnd |-> selectionEnd, suggestions |-> suggestions,
     showSuggestions |-> showSuggestions, activeIndex |-> activeIndex,
     mode |-> mode, usernames |-> usernames, pending |-> pending]

\* The record of a task: its name, its inputs, what the handleGlobalKey
\* promise resolved to ("" for the tasks that are no key event, "pending"
\* while the handler waits for the bridge) and the state it started in.
Ran(task, input, outcome) ==
    /\ ran' = <<[task |-> task, input |-> input, outcome |-> outcome,
                  before |-> Before]>>
    /\ UNCHANGED providerVars

\* The suggestion session of a state.
SessionOf(s) ==
    [suggestions |-> s.suggestions, showSuggestions |-> s.showSuggestions,
     activeIndex |-> s.activeIndex]

\* The record of a key task whose handler ended in r: atReturn is the
\* suggestion session the component holds when handleGlobalKey returns.  What
\* went through flushSync (applyValueAndSelection) is rendered by then, its
\* effects included; what was set by a plain state setter (updateSelection)
\* is rendered, and its effects run, after the return.
RanKey(event, r) ==
    /\ ran' = <<[task |-> "handleGlobalKey", input |-> <<event>>,
                  outcome |-> r.outcome, before |-> Before,
                  atReturn |-> SessionOf(r.state)]>>
    /\ UNCHANGED providerVars

\* The host bridge emits a global key event and the listener passes it to
\* handleGlobalKey, which runs up to its return or to its await.
HandleGlobalKey(event) ==
    LET r == handleGlobalKey(Current, mode, event)
        completes == /\ event.code = "Tab"
                     /\ showSuggestions /\ Len(suggestions) > 0
    IN  /\ ran = <<>>
        /\ MayOvertake
        /\ \/ event.code \in {"Backspace", "Delete"}
           \/ Fits(r.state.value,
                   IF completes THEN MaxLen + MaxCompletion ELSE MaxLen)
        /\ r.invoke # <<>> => Len(pending) < MaxPending
        /\ Commit(r.state)
        /\ pending' = Aged(pending) \o r.invoke
        /\ RanKey(event, r)
        /\ UNCHANGED <<mode, usernames>>

\* write_clipboard_text settles (ok or not): the copy or cut goes on.
WriteClipboardSettled(i, ok) ==
    /\ ran = <<>>
    /\ i \in DOMAIN pending
    /\ pending[i].command = "write_clipboard_text"
    /\ Commit(afterClipboardAwait(Current, pending[i], <<ok>>))
    /\ pending' = Without(pending, i)
    /\ Ran("write_clipboard_text", <<pending[i], ok>>, "none")
    /\ UNCHANGED <<mode, usernames>>

\* read_clipboard_text settles with a text, or fails (result = <<>>).
ReadClipboardSettled(i, result) ==
    /\ ran = <<>>
    /\ i \in DOMAIN pending
    /\ pending[i].command = "read_clipboard_text"
    /\ LET s == afterClipboardAwait(Current, pending[i], result)
       IN  /\ Fits(s.value, MaxLen)
           /\ Commit(s)
    /\ pending' = Without(pending, i)
    /\ Ran("read_clipboard_text", <<pending[i], result>>, "none")
    /\ UNCHANGED <<mode, usernames>>

\* ime mode, the input's onChange (ChatInput.tsx:582-586): the field reports
\* its new value and its selection, start <= end, within the new value.
ImeChange(fieldValue, fieldStart, fieldEnd) ==
    /\ ran = <<>>
    /\ MayOvertake
    /\ mode = "ime"
    /\ fieldValue # value
    /\ Commit(updateSelection([Current EXCEPT !.value = fieldValue], Current,
                              fieldStart, fieldEnd))
    /\ pending' = Aged(pending)
    /\ Ran("onChange", <<fieldValue, fieldStart, fieldEnd>>, "")
    /\ UNCHANGED <<mode, usernames>>

\* ime mode, the input's onSelect and onClick (ChatInput.tsx:587-598).
ImeSelect(fieldStart, fieldEnd) ==
    /\ ran = <<>>
    /\ MayOvertake
    /\ mode = "ime"
    /\ Commit(updateSelection(Current, Current, fieldStart, fieldEnd))
    /\ pending' = Aged(pending)
    /\ Ran("onSelect", <<fieldStart, fieldEnd>>, "")
    /\ UNCHANGED <<mode, usernames>>

\* ime mode, the input's onKeyDown (ChatInput.tsx:599-628) for the keys that
\* act on the suggestions; Escape and Enter only call the parent.
ImeKeyDown(k) ==
    /\ ran = <<>>
    /\ MayOvertake
    /\ mode = "ime"
    /\ showSuggestions /\ Len(suggestions) > 0
    /\ k = "Tab" => activeIndex + 1 \in DOMAIN suggestions
    /\ LET s == IF k = "ArrowDown"
                THEN [Current EXCEPT !.activeIndex = (@ + 1) % Len(suggestions)]
                ELSE IF k = "ArrowUp"
                THEN [Current EXCEPT !.activeIndex =
                        IF @ = 0 THEN Len(suggestions) - 1 ELSE @ - 1]
                ELSE insertSuggestion(Current, Current,
                                      suggestions[activeIndex + 1])
       IN  /\ Fits(s.value, MaxLen + MaxCompletion)
           /\ Commit(s)
    /\ pending' = Aged(pending)
    /\ Ran("onKeyDown", <<k>>, "")
    /\ UNCHANGED <<mode, usernames>>

\* focusless mode, the viewport's onMouseDown (ChatInput.tsx:639-644).
FocuslessMouseDown ==
    /\ ran = <<>>
    /\ MayOvertake
    /\ mode = "focusless"
    /\ Commit(updateSelection(Current, Current, Len(value), Len(value)))
    /\ pending' = Aged(pending)
    /\ Ran("onMouseDown", <<>>, "")
    /\ UNCHANGED <<mode, usernames>>

\* A click on an entry of the suggestion list (ChatInput.tsx:709-712).
SuggestionMouseDown(idx) ==
    /\ ran = <<>>
    /\ MayOvertake
    /\ showSuggestions /\ Len(suggestions) > 0
    /\ idx \in DOMAIN suggestions
    /\ LET s == insertSuggestion(Current, Current, suggestions[idx])
       IN  /\ Fits(s.value, MaxLen + MaxCompletion)
           /\ Commit(s)
    /\ pending' = Aged(pending)
    /\ Ran("suggestionMouseDown", <<idx>>, "")
    /\ UNCHANGED <<mode, usernames>>

\* The parent calls focusImeInput (ChatInput.tsx:516-520); the field holds
\* the content, so both branches of ?? give its length.
FocusImeInput ==
    /\ ran = <<>>
    /\ MayOvertake
    /\ Commit(updateSelection(Current, Current, Len(value), Len(value)))
    /\ pending' = Aged(pending)
    /\ Ran("focusImeInput", <<>>, "")
    /\ UNCHANGED <<mode, usernames>>

\* Faulty variant: the component is mounted anew when the mode changes, so
\* its selection starts again at (0, 0).
SetModeRemounts(m) ==
    /\ ran = <<>>
    /\ MayOvertake
    /\ m # mode
    /\ mode' = m
    /\ Commit([Current EXCEPT !.selectionStart = 0, !.selectionEnd = 0])
    /\ pending' = Aged(pending)
    /\ Ran("setMode", <<m>>, "")
    /\ UNCHANGED usernames

\* The surrounding application switches the mode prop: the component renders
\* again with the state it holds; no effect has mode among the dependencies
\* that touch content, selection or suggestions.
SetMode(m) ==
    /\ ran = <<>>
    /\ MayOvertake
    /\ m # mode
    /\ mode' = m
    /\ Commit(Current)
    /\ pending' = Aged(pending)
    /\ Ran("setMode", <<m>>, "")
    /\ UNCHANGED usernames

\* The messages prop changes: useMemo gives a new usernames array, so the
\* suggestion effect runs again (ChatInput.tsx:241-244, 253-281).
\* The surrounding application replaces the content by a shorter one (it
\* clears the text after a submit): the value prop changes and the
\* component renders with the offsets it holds.
SetValue(v) ==
    /\ ran = <<>>
    /\ MayOvertake
    /\ Len(v) < Len(value)
    /\ Commit([Current EXCEPT !.value = v])
    /\ pending' = Aged(pending)
    /\ Ran("setValue", <<v>>, "")
    /\ UNCHANGED <<mode, usernames>>

NewMessages(u) ==
    /\ ran = <<>>
    /\ MayOvertake
    /\ usernames' = u
    /\ Commit([Current EXCEPT !.usernames = u, !.deps = <<>>])
    /\ pending' = Aged(pending)
    /\ Ran("messages", <<u>>, "")
    /\ UNCHANGED mode

\* The task is over: the event loop turns to the next one.
TaskEnd ==
    /\ ran # <<>>
    /\ ran' = <<>>
    /\ UNCHANGED <<value, selectionStart, selectionEnd, suggestions,
                   showSuggestions, activeIndex, mode, usernames, pending,
                   providerVars>>

Next ==
    \/ \E event \in Events : HandleGlobalKey(event)
    \/ \E i \in 1..MaxPending, ok \in BOOLEAN : WriteClipboardSettled(i, ok)
    \/ \E i \in 1..MaxPending, text \in ClipboardTexts :
          ReadClipboardSettled(i, <<text>>)
    \/ \E i \in 1..MaxPending : ReadClipboardSettled(i, <<>>)
    \/ \E v \in Strings : \E a \in 0..Len(v) : \E b \in a..Len(v) :
          ImeChange(v, a, b)
    \/ \E a \in 0..Len(value) : \E b \in a..Len(value) : ImeSelect(a, b)
    \/ \E k \in {"ArrowDown", "ArrowUp", "Tab"} : ImeKeyDown(k)
    \/ FocuslessMouseDown
    \/ \E idx \in 1..Len(suggestions) : SuggestionMouseDown(idx)
    \/ FocusImeInput
    \/ \E m \in {"ime", "focusless"} : SetMode(m)
    \/ \E u \in UsernameLists : NewMessages(u)
    \/ \E v \in Strings : SetValue(v)
    \/ TaskEnd

Spec == Init /\ [][Next]_vars

-----------------------------------------------------------------------------
(* The suggestion session on longer contents.  The content is a prop: the  *)
(* component is mounted on a content and a list of usernames, and the keys *)
(* that move the caret, cycle and accept suggestions are delivered to it.  *)

\* Most code units of the contents that are enumerated.
SuggestLen == 2
SuggestAlphabet == {"@", ":", "a", "A", " ", "<NBSP>"}
alice == <<"a", "l", "i", "c", "e">>
albert == <<"a", "l", "b", "e", "r", "t">>
bob == <<"b", "o", "b">>
\* "hello @al", "hi :a x", "a<NBSP>@", "a<CR>@", "a @"
LongContents ==
    {<<"h", "e", "l", "l", "o", " ", "@", "a", "l">>,
     <<"h", "i", " ", ":", "a", " ", "x">>,
     <<"a", "<NBSP>", "@">>,
     <<"a", "<CR>", "@">>,
     <<"a", " ", "@">>}
SuggestContents ==
    LongContents \cup UNION {[1..n -> SuggestAlphabet] : n \in 0..SuggestLen}
SuggestUsernameLists ==
    {<<alice, albert, bob>>, << <<"A", "a">>, <<"b">>, <<"a">> >>}
SuggestEvents ==
    {KeyEvent(c, <<>>, "down", m, "absent") :
        c \in {"ArrowLeft", "ArrowRight", "Home", "End"},
        m \in {NoModifiers, ShiftOnly}}
    \cup {KeyEvent(c, <<>>, "down", NoModifiers, "absent") :
            c \in {"ArrowUp", "ArrowDown", "Tab"}}

\* The state after the mount on a content and a list of usernames: caret at
\* 0, so the suggestion effect of the first render found no word.
SuggestInit ==
    /\ value \in SuggestContents
    /\ selectionStart = 0
    /\ selectionEnd = 0
    /\ suggestions = <<>>
    /\ showSuggestions = FALSE
    /\ activeIndex = 0
    /\ mode = "focusless"
    /\ usernames \in SuggestUsernameLists
    /\ pending = <<>>
    /\ ran = <<>>
    /\ ProvidersMounted

\* handleGlobalKey for a key that makes no bridge call; a suggestion is
\* accepted only on one of the enumerated contents.
SuggestKey(event) ==
    LET r == handleGlobalKey(Current, mode, event)
    IN  /\ ran = <<>>
        /\ r.invoke = <<>>
        /\ r.state.value = value \/ value \in SuggestContents
        /\ Commit(r.state)
        /\ RanKey(event, r)
        /\ UNCHANGED <<mode, usernames, pending>>

\* A click on an entry of the suggestion list (ChatInput.tsx:709-712).
SuggestClick(idx) ==
    /\ ran = <<>>
    /\ showSuggestions /\ Len(suggestions) > 0
    /\ idx \in DOMAIN suggestions
    /\ value \in SuggestContents
    /\ Commit(insertSuggestion(Current, Current, suggestions[idx]))
    /\ Ran("suggestionMouseDown", <<idx>>, "")
    /\ UNCHANGED <<mode, usernames, pending>>

SuggestNext ==
    \/ \E event \in SuggestEvents : SuggestKey(event)
    \/ \E idx \in 1..Len(suggestions) : SuggestClick(idx)
    \/ TaskEnd

SuggestSpec == SuggestInit /\ [][SuggestNext]_vars

-----------------------------------------------------------------------------
(* Typing.  The resolver of ChatInput.tsx:185-212 and the editing keys on   *)
(* composed texts of every kind: the component is mounted in focusless mode *)
(* and receives plain key-down events.  A content is a sequence of UTF-16   *)
(* code units, as a JavaScript string is: "<HS>" and "<LS>" are the high    *)
(* and the low surrogate that together encode one scalar value outside the  *)
(* Basic Multilingual Plane, "<EACUTE>" is one that is not ASCII.           *)

HighSurrogate == "<HS>"
LowSurrogate == "<LS>"
\* event.text: absent, "", "\t", "\r", "h\x7f", "h", "H", ",", "hi", U+00E9,
\* U+1F600
TypeTexts ==
    {<<>>, << <<>> >>, << <<"<TAB>">> >>, << <<"<CR>">> >>,
     << <<"h", "<DEL>">> >>, << <<"h">> >>,
     << <<"H">> >>, << <<",">> >>, << <<"h", "i">> >>, << <<"<EACUTE>">> >>,
     << <<HighSurrogate, LowSurrogate>> >>}
TypeLetterCodes == {"KeyH", "KeyI", "KeyM"}
TypeSymbolCodes ==
    {"Digit1", "Digit2", "Semicolon", "Numpad1", "NumpadAdd", "Space",
     "IntlBackslash"}
TypeEditEvents ==
    {KeyEvent(c, <<>>, "down", NoModifiers, "absent") :
        c \in {"Enter", "Backspace", "Delete", "ArrowLeft", "ArrowRight"}}
TypeTextEvents ==
    {KeyEvent(c, t, "down", m, caps) :
        c \in TypeLetterCodes, t \in TypeTexts, m \in {NoModifiers, ShiftOnly},
        caps \in {"absent", "true", "false"}}
    \cup {KeyEvent(c, t, "down", m, "absent") :
        c \in TypeSymbolCodes, t \in TypeTexts, m \in {NoModifiers, ShiftOnly}}
TypeEvents == TypeEditEvents \cup TypeTextEvents

\* "Hi 1" and the contents on the way to it; a key that may produce text
\* is delivered on these.
HiOne == <<"H", "i", " ", "1">>
TypeContents == {SubSeq(HiOne, 1, n) : n \in 0..Len(HiOne)}

TypeInit ==
    /\ value = <<>>
    /\ selectionStart = 0
    /\ selectionEnd = 0
    /\ suggestions = <<>>
    /\ showSuggestions = FALSE
    /\ activeIndex = 0
    /\ mode = "focusless"
    /\ usernames = <<alice, bob>>
    /\ pending = <<>>
    /\ ran = <<>>
    /\ ProvidersMounted

\* handleGlobalKey for a plain key-down event.
TypeKey(event) ==
    LET r == handleGlobalKey(Current, mode, event)
    IN  /\ ran = <<>>
        /\ r.invoke = <<>>
        /\ event \in TypeEditEvents \/ value \in TypeContents
        /\ Commit(r.state)
        /\ RanKey(event, r)
        /\ UNCHANGED <<mode, usernames, pending>>

TypeNext ==
    \/ \E event \in TypeEvents : TypeKey(event)
    \/ TaskEnd

TypeSpec == TypeInit /\ [][TypeNext]_vars

-----------------------------------------------------------------------------
(* The keyboard.  Every code of the tables and of the key sets, under the   *)
(* modifier combinations, with and without composed text, as a first press  *)
(* and as a repeat; and mapPrintableCharacter applied on its own.           *)

KeyboardCodes ==
    DOMAIN letterOfCode \cup DOMAIN shiftedNumberMap
        \cup DOMAIN numpadDigitOfCode \cup DOMAIN numpadOperatorOfCode
        \cup DOMAIN shiftedSymbolMap \cup nonTextKeyCodes \cup functionKeyCodes
        \cup {"Space", "IntlBackslash", "ContextMenu"}
\* The codes of the key events: the keys that are no text keys, the function
\* keys, and some keys of each table.
KeyboardKeyCodes ==
    nonTextKeyCodes \cup functionKeyCodes
        \cup {"KeyA", "KeyV", "Digit1", "Semicolon", "Numpad1", "NumpadAdd",
              "Space", "IntlBackslash", "ContextMenu"}
KeyboardModifierSets ==
    {NoModifiers, ShiftOnly, CtrlOnly,
     Modifiers(FALSE, FALSE, TRUE, FALSE), Modifiers(FALSE, FALSE, FALSE, TRUE),
     Modifiers(TRUE, FALSE, TRUE, FALSE)}
\* event.text: absent, "x", "\t"
KeyboardTexts == {<<>>, << <<"x">> >>, << <<"<TAB>">> >>}
\* event.timestamp_ms
Timestamps == {0, 530}
\* GlobalKeyPayload with all its fields.
KeyboardEvent(code, text, phase, m, repeat, ts) ==
    [code |-> code, text |-> text, phase |-> phase, ctrl |-> m.ctrl,
     shift |-> m.shift, caps |-> "absent", alt |-> m.alt, meta |-> m.meta,
     repeat |-> repeat, timestamp_ms |-> ts]
\* A first press at time 0 and a repeat of it at time 530.
KeyboardEvents ==
    {KeyboardEvent(c, t, "down", m, rp, IF rp THEN 530 ELSE 0) :
        c \in KeyboardKeyCodes, t \in KeyboardTexts,
        m \in KeyboardModifierSets, rp \in BOOLEAN}
    \cup {KeyboardEvent(c, <<>>, "up", NoModifiers, rp, IF rp THEN 530 ELSE 0) :
        c \in {"KeyA", "Backspace", "Enter"}, rp \in BOOLEAN}

\* The contents the keys are delivered on.
KeyboardContents == {<<>>, <<"a", "b">>, <<"@">>}

KeyboardInit ==
    /\ value \in KeyboardContents
    /\ selectionStart = 0
    /\ selectionEnd = 0
    /\ suggestions = <<>>
    /\ showSuggestions = FALSE
    /\ activeIndex = 0
    /\ mode = "focusless"
    /\ usernames = <<alice, bob>>
    /\ pending = <<>>
    /\ ran = <<>>
    /\ ProvidersMounted

\* handleGlobalKey for an event that makes no bridge call.
KeyboardKey(event) ==
    LET r == handleGlobalKey(Current, mode, event)
    IN  /\ ran = <<>>
        /\ r.invoke = <<>>
        /\ value \in KeyboardContents
        /\ Commit(r.state)
        /\ RanKey(event, r)
        /\ UNCHANGED <<mode, usernames, pending>>

\* mapPrintableCharacter(code, shift), called on its own.
Resolve(code, shift) ==
    /\ ran = <<>>
    /\ ran' = <<[task |-> "mapPrintableCharacter", input |-> <<code, shift>>,
                 outcome |-> "", before |-> Before,
                 result |-> mapPrintableCharacter(code, shift)]>>
    /\ UNCHANGED <<value, selectionStart, selectionEnd, suggestions,
                   showSuggestions, activeIndex, mode, usernames, pending,
                   providerVars>>

KeyboardNext ==
    \/ \E event \in KeyboardEvents : KeyboardKey(event)
    \/ \E code \in KeyboardCodes, shift \in BOOLEAN : Resolve(code, shift)
    \/ TaskEnd

KeyboardSpec == KeyboardInit /\ [][KeyboardNext]_vars

-----------------------------------------------------------------------------
(* Properties.  ran holds the task that has just run, with the state it      *)
(* started in, so what a task does is stated of the states it ends in.      *)

KeyTask == ran # <<>> /\ ran[1].task = "handleGlobalKey"
FocuslessKeyTask == KeyTask /\ ran[1].before.mode = "focusless"
Ev == ran[1].input[1]
Was == ran[1].before
Plain(e) == ~e.ctrl /\ ~e.meta /\ ~e.alt
\* A focusless key-down of one of the codes, with none of ctrl/meta/alt.
PlainDown(codes) ==
    /\ FocuslessKeyTask
    /\ Ev.phase = "down"
    /\ Plain(Ev)
    /\ Ev.code \in codes

TextUnchanged ==
    /\ value = Was.value
    /\ selectionStart = Was.selectionStart
    /\ selectionEnd = Was.selectionEnd
SessionUnchanged ==
    /\ suggestions = Was.suggestions
    /\ showSuggestions = Was.showSuggestions
    /\ activeIndex = Was.activeIndex
\* The bridge calls in flight, without their age.
Calls(p) == [i \in DOMAIN p |-> [p[i] EXCEPT !.age = 0]]
NoBridgeCall == Calls(pending) = Calls(Was.pending)

\* C1: in every reachable state both offsets lie in [0, length(content)].
C1_OffsetsInRange ==
    /\ 0 <= selectionStart /\ selectionStart <= Len(value)
    /\ 0 <= selectionEnd /\ selectionEnd <= Len(value)
\* ArrowRight at the end of a non-empty content: the caret stayed at the end.
C1_Witness ==
    /\ PlainDown({"ArrowRight"})
    /\ Was.value # <<>>
    /\ Was.selectionEnd = Len(Was.value)
    /\ selectionEnd = Len(value)

\* C2: in focusless mode the outcome is "cancel" exactly for a key-down
\* Escape without ctrl/meta/alt, "submit" exactly for a key-down Enter or
\* NumpadEnter without ctrl/meta/alt, and "none" for every other event (at
\* once, or when the bridge call it waits for settles).
C2_Outcome ==
    /\ FocuslessKeyTask =>
        /\ ran[1].outcome = "cancel" <=> PlainDown({"Escape"})
        /\ ran[1].outcome = "submit" <=> PlainDown({"Enter", "NumpadEnter"})
        /\ ran[1].outcome \in {"cancel", "submit", "none", "pending"}
    /\ (ran # <<>> /\ ran[1].task \in {"write_clipboard_text", "read_clipboard_text"})
        => ran[1].outcome = "none"
\* Enter gave "submit" while suggestions were visible.
C2_Witness ==
    /\ PlainDown({"Enter"})
    /\ Was.showSuggestions /\ Len(Was.suggestions) > 0
    /\ ran[1].outcome = "submit"

\* C3: a key-up event changes neither content, selection nor the suggestion
\* session, makes no bridge call and resolves to "none".
C3_KeyUpIgnored ==
    (KeyTask /\ Ev.phase = "up") =>
        /\ TextUnchanged
        /\ SessionUnchanged
        /\ NoBridgeCall
        /\ ran[1].outcome = "none"
\* A key-up of Ctrl+V in focusless mode over a non-empty selection.
C3_Witness ==
    /\ FocuslessKeyTask
    /\ Ev.phase = "up" /\ Ev.code = "KeyV" /\ Ev.ctrl
    /\ Was.selectionStart # Was.selectionEnd

\* C4: in ime mode handleGlobalKey resolves to "none" for every event, and
\* changes neither content, selection nor the suggestion session, and makes
\* no bridge call.
C4_ImeModeIgnoresKeys ==
    (KeyTask /\ Was.mode = "ime") =>
        /\ ran[1].outcome = "none"
        /\ TextUnchanged
        /\ SessionUnchanged
        /\ NoBridgeCall
\* A key-down of Backspace in ime mode with the caret behind a character.
C4_Witness ==
    /\ KeyTask /\ Was.mode = "ime"
    /\ Ev.phase = "down" /\ Ev.code = "Backspace" /\ Plain(Ev)
    /\ Was.selectionStart = Was.selectionEnd /\ Was.selectionEnd > 0

\* The text of a sequence before offset n, and from offset n on.
Upto(c, n) == SubSeq(c, 1, n)
From(c, n) == SubSeq(c, n + 1, Len(c))
Lower(a, b) == IF a <= b THEN a ELSE b
Upper(a, b) == IF a <= b THEN b ELSE a
\* The state is c with the range between s and e replaced by t, the caret
\* collapsed behind t.
Replaced(c, s, e, t) ==
    /\ value = Upto(c, Lower(s, e)) \o t \o From(c, Upper(s, e))
    /\ selectionStart = Lower(s, e) + Len(t)
    /\ selectionEnd = Lower(s, e) + Len(t)
\* The keys of the model that type one character, without a composed text.
TypesText(t) ==
    /\ PlainDown({"KeyA", "Space", "Digit2"})
    /\ Ev.text = <<>>
    /\ Ev.caps = "absent"
    /\ t = IF Ev.code = "Space" THEN <<" ">>
           ELSE IF Ev.code = "KeyA" THEN (IF Ev.shift THEN <<"A">> ELSE <<"a">>)
           ELSE (IF Ev.shift THEN <<"@">> ELSE <<"2">>)
\* A bridge call of the command has just settled.
Settled(command) == ran # <<>> /\ ran[1].task = command
Call == ran[1].input[1]

\* C5: replaceSelection(insertText) on content c with selection (s, e), in
\* either order of s and e, leaves c[0..min(s,e)) + insertText + c[max(s,e)..)
\* and a collapsed selection at min(s,e) + length(insertText).  The callers
\* are a typed character (on the current state), a paste of a non-empty text
\* and a cut (on the content and selection the handler held).
C5_ReplaceSelection ==
    /\ \A t \in {<<"a">>, <<"A">>, <<" ">>, <<"@">>, <<"2">>} :
          TypesText(t) =>
              Replaced(Was.value, Was.selectionStart, Was.selectionEnd, t)
    /\ (Settled("read_clipboard_text") /\ ran[1].input[2] # <<>>
            /\ ran[1].input[2][1] # <<>>) =>
          Replaced(Call.closure.value, Call.closure.selectionStart,
                   Call.closure.selectionEnd, ran[1].input[2][1])
    /\ (Settled("write_clipboard_text") /\ Call.code = "KeyX") =>
          Replaced(Call.closure.value, Call.closure.selectionStart,
                   Call.closure.selectionEnd, <<>>)
\* A character typed over a selection whose end lies before its start.
C5_Witness ==
    /\ TypesText(<<"a">>)
    /\ Was.selectionStart > Was.selectionEnd
    /\ Len(Was.value) = 2
    /\ selectionEnd = Was.selectionEnd + 1

\* C6: Backspace over a non-empty selection removes the selected range and
\* collapses the caret at its lower edge; with a collapsed caret at p > 0 it
\* removes the element at offset p-1 and leaves the caret at p-1; with a
\* collapsed caret at 0 it changes neither content nor selection.
C6_Backspace ==
    PlainDown({"Backspace"}) =>
        IF Was.selectionStart # Was.selectionEnd
        THEN Replaced(Was.value, Was.selectionStart, Was.selectionEnd, <<>>)
        ELSE IF Was.selectionEnd > 0
        THEN /\ value = Upto(Was.value, Was.selectionEnd - 1)
                            \o From(Was.value, Was.selectionEnd)
             /\ selectionStart = Was.selectionEnd - 1
             /\ selectionEnd = Was.selectionEnd - 1
        ELSE TextUnchanged
\* Backspace over a selection that starts behind the first element.
C6_Witness ==
    /\ PlainDown({"Backspace"})
    /\ Was.selectionStart # Was.selectionEnd
    /\ Lower(Was.selectionStart, Was.selectionEnd) > 0
    /\ Len(value) = Len(Was.value) - 1

\* C7: Delete over a non-empty selection removes the selected range and
\* collapses the caret at its lower edge; with a collapsed caret at
\* p < length(content) it removes the element at offset p and leaves the
\* caret at p; with a collapsed caret at the end it changes nothing.
C7_Delete ==
    PlainDown({"Delete"}) =>
        IF Was.selectionStart # Was.selectionEnd
        THEN Replaced(Was.value, Was.selectionStart, Was.selectionEnd, <<>>)
        ELSE IF Was.selectionEnd < Len(Was.value)
        THEN /\ value = Upto(Was.value, Was.selectionEnd)
                            \o From(Was.value, Was.selectionEnd + 1)
             /\ selectionStart = Was.selectionEnd
             /\ selectionEnd = Was.selectionEnd
        ELSE TextUnchanged
\* Delete over a selection that ends before the last element.
C7_Witness ==
    /\ PlainDown({"Delete"})
    /\ Was.selectionStart # Was.selectionEnd
    /\ Upper(Was.selectionStart, Was.selectionEnd) < Len(Was.value)
    /\ Len(value) = Len(Was.value) - 1

\* C8: ArrowLeft/ArrowRight without Shift collapse a non-empty selection to
\* its lower (ArrowLeft) or upper (ArrowRight) edge and go no step further;
\* a collapsed caret at p moves to p-1 or p+1, clamped to [0, length], and
\* stays collapsed.
C8_ArrowCollapsesOrSteps ==
    (PlainDown({"ArrowLeft", "ArrowRight"}) /\ ~Ev.shift) =>
        LET left == Ev.code = "ArrowLeft"
            p == Was.selectionEnd
            target ==
                IF Was.selectionStart # Was.selectionEnd
                THEN IF left THEN Lower(Was.selectionStart, Was.selectionEnd)
                     ELSE Upper(Was.selectionStart, Was.selectionEnd)
                ELSE IF left THEN (IF p = 0 THEN 0 ELSE p - 1)
                ELSE (IF p = Len(Was.value) THEN p ELSE p + 1)
        IN  /\ selectionStart = target
            /\ selectionEnd = target
            /\ value = Was.value
\* ArrowRight on a selection that ends before the end of the content.
C8_Witness ==
    /\ PlainDown({"ArrowRight"}) /\ ~Ev.shift
    /\ Was.selectionStart # Was.selectionEnd
    /\ selectionEnd = Upper(Was.selectionStart, Was.selectionEnd)
    /\ selectionEnd < Len(value)

\* C9: Shift+ArrowLeft/ArrowRight changes only selectionEnd, to
\* selectionEnd -/+ 1 clamped to [0, length]; selectionStart stays, so the
\* pair is not normalized: from a collapsed caret at p > 0 Shift+ArrowLeft
\* leaves (p, p-1), and from (p, p-1) Shift+ArrowRight leaves (p, p).
C9_ShiftKeepsAnchor ==
    (PlainDown({"ArrowLeft", "ArrowRight"}) /\ Ev.shift) =>
        LET left == Ev.code = "ArrowLeft"
            p == Was.selectionStart
        IN  /\ selectionStart = Was.selectionStart
            /\ selectionEnd =
                  IF left
                  THEN (IF Was.selectionEnd = 0 THEN 0 ELSE Was.selectionEnd - 1)
                  ELSE (IF Was.selectionEnd = Len(Was.value)
                        THEN Was.selectionEnd ELSE Was.selectionEnd + 1)
            /\ value = Was.value
            /\ (left /\ Was.selectionEnd = p /\ p > 0) =>
                  (selectionStart = p /\ selectionEnd = p - 1)
            /\ (~left /\ p > 0 /\ Was.selectionEnd = p - 1) =>
                  (selectionStart = p /\ selectionEnd = p)
\* Shift+ArrowRight from the pair (p, p-1) gave back the caret at p.
C9_Witness ==
    /\ PlainDown({"ArrowRight"}) /\ Ev.shift
    /\ Was.selectionStart > 0
    /\ Was.selectionEnd = Was.selectionStart - 1
    /\ selectionStart = Was.selectionStart
    /\ selectionEnd = Was.selectionStart

\* C10: Home/End without Shift collapse the selection at 0 or at
\* length(content); with Shift selectionEnd becomes 0 or length(content) and
\* selectionStart keeps its value; the content is unchanged.
C10_HomeEnd ==
    PlainDown({"Home", "End"}) =>
        LET boundary == IF Ev.code = "Home" THEN 0 ELSE Len(Was.value)
        IN  /\ selectionEnd = boundary
            /\ selectionStart = IF Ev.shift THEN Was.selectionStart ELSE boundary
            /\ value = Was.value
\* Shift+Home on a selection whose two offsets differ and are not 0.
C10_Witness ==
    /\ PlainDown({"Home"}) /\ Ev.shift
    /\ Was.selectionStart # Was.selectionEnd
    /\ Was.selectionStart > 0 /\ Was.selectionEnd > 0
    /\ selectionStart = Was.selectionStart /\ selectionEnd = 0

\* A key-down of one of the codes with ctrl or meta held and alt not held,
\* in focusless mode.
ShortcutDown(codes) ==
    /\ FocuslessKeyTask
    /\ Ev.phase = "down"
    /\ (Ev.ctrl \/ Ev.meta) /\ ~Ev.alt
    /\ Ev.code \in codes

\* C11: a key-down KeyA with ctrl or meta held and alt not held sets the
\* selection to (0, length(content)), leaves the content as it was (no
\* character goes in) and resolves to "none".
C11_SelectAll ==
    ShortcutDown({"KeyA"}) =>
        /\ selectionStart = 0
        /\ selectionEnd = Len(Was.value)
        /\ value = Was.value
        /\ ran[1].outcome = "none"
\* Ctrl+A on a content of two elements with the caret collapsed at 1.
C11_Witness ==
    /\ ShortcutDown({"KeyA"})
    /\ Len(Was.value) = 2
    /\ Was.selectionStart = 1 /\ Was.selectionEnd = 1
    /\ selectionStart = 0 /\ selectionEnd = 2

\* The units that separate words.
SpaceUnits == {" ", "<TAB>", "<LF>", "<CR>", "<VT>", "<FF>", "<NBSP>"}
\* The last whitespace-delimited token of c: its longest suffix without a
\* separating unit.
LastToken(c) ==
    LET starts == {k \in 0..Len(c) : \A j \in (k + 1)..Len(c) : c[j] \notin SpaceUnits}
        k == CHOOSE k \in starts : \A j \in starts : k <= j
    IN  From(c, k)
\* The current word: the last token before the larger of the two offsets.
CurrentWord == LastToken(Upto(value, Upper(selectionStart, selectionEnd)))
Triggers(unit) == CurrentWord # <<>> /\ CurrentWord[1] = unit
IsPrefix(q, u) == Len(q) <= Len(u) /\ \A i \in 1..Len(q) : q[i] = u[i]
Mention(u) == [type |-> "mention", value |-> u]
\* The usernames whose lowercase form begins with the lowercase of q, in the
\* order of the list, tagged as mentions.
MentionsFor(q) ==
    LET hits == SelectSeq(usernames,
                          LAMBDA u : IsPrefix(toLowerCase(q), toLowerCase(u)))
    IN  [i \in 1..Len(hits) |-> Mention(hits[i])]
HelloAl == <<"h", "e", "l", "l", "o", " ", "@", "a", "l">>

\* C12: when the last whitespace-delimited token before the caret (the
\* larger of the two offsets) starts with "@", the candidates are exactly
\* the usernames whose lowercase form has the lowercase rest of the token as
\* a prefix, in the order of the username list, each tagged as a mention, and
\* they are visible iff there is one; "hello @al" with the caret at the end
\* and the usernames alice, albert, bob gives alice, albert, visible.
C12_MentionTrigger ==
    /\ Triggers("@") =>
          /\ suggestions = MentionsFor(Tail(CurrentWord))
          /\ showSuggestions = (Len(suggestions) > 0)
    /\ (/\ value = HelloAl
        /\ Upper(selectionStart, selectionEnd) = 9
        /\ usernames = <<alice, albert, bob>>) =>
          /\ suggestions = <<Mention(alice), Mention(albert)>>
          /\ showSuggestions
\* End has put the caret behind "hello @al": alice and albert are offered.
C12_Witness ==
    /\ PlainDown({"End"})
    /\ value = HelloAl
    /\ selectionStart = 9 /\ selectionEnd = 9
    /\ usernames = <<alice, albert, bob>>
    /\ ~Was.showSuggestions
    /\ showSuggestions
    /\ Len(suggestions) = 2

\* C13: when the current word starts with neither "@" nor ":" (also when it
\* is empty) there are no candidates and the suggestion session is not
\* visible; and the session is visible only if there is a candidate.
C13_NoTriggerNoSuggestions ==
    /\ (~Triggers("@") /\ ~Triggers(":")) =>
          (suggestions = <<>> /\ ~showSuggestions)
    /\ showSuggestions => Len(suggestions) > 0
\* A key moved the caret off a word with visible candidates to a place
\* without a word: the candidates are gone.
C13_Witness ==
    /\ KeyTask
    /\ Was.showSuggestions /\ Len(Was.suggestions) > 0
    /\ value = Was.value
    /\ CurrentWord = <<>>
    /\ Upper(selectionStart, selectionEnd) > 0
    /\ suggestions = <<>> /\ ~showSuggestions

\* The task that has just run changed the content, the selection or the
\* list of usernames, or was given a new list of messages.
Recomputed ==
    /\ ran # <<>>
    /\ \/ ~TextUnchanged
       \/ usernames # Was.usernames
       \/ ran[1].task = "messages"

\* C14: whenever the suggestion session is visible,
\* 0 <= activeIndex < length(candidates); and after every task that changed
\* content, selection or username list activeIndex is 0, whatever it was.
C14_ActiveIndexInRange ==
    /\ showSuggestions =>
          (0 <= activeIndex /\ activeIndex < Len(suggestions))
    /\ Recomputed => activeIndex = 0
    /\ ran # <<>> => ran[1].outcome # "rejected"
\* The second of two candidates was active when new messages left one
\* candidate: it is visible and activeIndex is 0.
C14_Witness ==
    /\ Recomputed
    /\ Was.showSuggestions /\ Len(Was.suggestions) = 2
    /\ Was.activeIndex = 1
    /\ showSuggestions /\ Len(suggestions) = 1
    /\ activeIndex = 0

\* A suggestion has just been accepted, by Tab or by a click on the list.
AcceptedByTab ==
    /\ PlainDown({"Tab"})
    /\ Was.showSuggestions /\ Len(Was.suggestions) > 0
AcceptedByClick == ran # <<>> /\ ran[1].task = "suggestionMouseDown"
Accepted == AcceptedByTab \/ AcceptedByClick
AcceptedSuggestion ==
    IF AcceptedByClick THEN Was.suggestions[ran[1].input[1]]
    ELSE Was.suggestions[Was.activeIndex + 1]
Replacement(sug) ==
    IF sug.type = "mention" THEN <<"@">> \o sug.value ELSE sug.value.emoji
\* The state is the one before with the text from the start of the current
\* word through the caret replaced by the replacement and a space, the caret
\* collapsed behind the space and the session hidden.
InsertedOverCurrentWord ==
    LET caret == Upper(Was.selectionStart, Was.selectionEnd)
        start == caret - Len(LastToken(Upto(Was.value, caret)))
        text == Replacement(AcceptedSuggestion) \o <<" ">>
    IN  /\ value = Upto(Was.value, start) \o text \o From(Was.value, caret)
        /\ selectionStart = start + Len(text)
        /\ selectionEnd = start + Len(text)
        /\ ~showSuggestions
HelloAlice ==
    <<"h", "e", "l", "l", "o", " ", "@", "a", "l", "i", "c", "e", " ">>

\* C15: accepting a suggestion replaces the text from the start of the
\* current word through the caret with "@" + username + " " or
\* glyph + " ", keeps the text after the caret, collapses the selection
\* behind the inserted space and hides the session; mention alice into
\* "hello @al" with the caret at the end gives "hello @alice ", caret 13.
C15_InsertSuggestion ==
    Accepted =>
        /\ InsertedOverCurrentWord
        /\ (/\ Was.value = HelloAl
            /\ Was.selectionStart = 9 /\ Was.selectionEnd = 9
            /\ AcceptedSuggestion = Mention(alice)) =>
              (value = HelloAlice /\ selectionStart = 13 /\ selectionEnd = 13)
\* The same, for a collapsed caret behind words that are separated by
\* spaces, tabs and line feeds only.
C15_OnOrdinaryWords ==
    (/\ Accepted
     /\ Was.selectionStart = Was.selectionEnd
     /\ \A i \in 1..Len(Was.value) :
            Was.value[i] \in SpaceUnits => Was.value[i] \in {" ", "<TAB>", "<LF>"})
        => C15_InsertSuggestion
\* alice accepted in "hello @al": "hello @alice " with the caret at 13.
C15_Example ==
    /\ Accepted
    /\ Was.value = HelloAl
    /\ value = HelloAlice /\ selectionStart = 13 /\ selectionEnd = 13

WasVisible == Was.showSuggestions /\ Len(Was.suggestions) > 0
\* The state after k key-downs of ArrowDown in focusless mode, from state s.
RECURSIVE ArrowDownTimes(_, _)
ArrowDownTimes(s, k) ==
    IF k = 0 THEN s
    ELSE ArrowDownTimes(
            Render(handleGlobalKey(s, "focusless",
                KeyEvent("ArrowDown", <<>>, "down", NoModifiers, "absent")).state),
            k - 1)

\* C16: while n >= 1 candidates are visible ArrowDown sets activeIndex to
\* (activeIndex + 1) mod n and ArrowUp to (activeIndex - 1) mod n (0 wraps to
\* n-1), and neither changes caret, content or candidates; while no
\* candidates are visible ArrowUp, ArrowDown and Tab change neither
\* activeIndex, content nor selection.  n presses of ArrowDown on n visible
\* candidates give back the activeIndex they started from.
C16_CycleSuggestions ==
    /\ (PlainDown({"ArrowDown", "ArrowUp"}) /\ WasVisible) =>
          LET n == Len(Was.suggestions)
          IN  /\ activeIndex = IF Ev.code = "ArrowDown"
                               THEN (Was.activeIndex + 1) % n
                               ELSE (Was.activeIndex + n - 1) % n
              /\ (Ev.code = "ArrowUp" /\ Was.activeIndex = 0) =>
                    activeIndex = n - 1
              /\ TextUnchanged
              /\ suggestions = Was.suggestions
              /\ showSuggestions
    /\ (PlainDown({"ArrowDown", "ArrowUp", "Tab"}) /\ ~WasVisible) =>
          /\ activeIndex = Was.activeIndex
          /\ TextUnchanged
          /\ SessionUnchanged
    /\ (showSuggestions /\ Len(suggestions) > 0) =>
          /\ ArrowDownTimes(Current, Len(suggestions)) = Current
          /\ Len(suggestions) > 1 => ArrowDownTimes(Current, 1) # Current
\* ArrowUp on the first of two visible candidates made the second active.
C16_Witness ==
    /\ PlainDown({"ArrowUp"})
    /\ WasVisible
    /\ Len(Was.suggestions) = 2
    /\ Was.activeIndex = 0
    /\ activeIndex = 1

ClipboardCodes == {"KeyA", "KeyC", "KeyX", "KeyV"}
\* The text a settled read returned, <<>> if it failed.
ReadText == IF ran[1].input[2] = <<>> THEN <<>> ELSE ran[1].input[2][1]
\* The state is the one the handler held at its call, with its selected
\* range replaced by t.
ReplacedInClosure(t) ==
    Replaced(Call.closure.value, Call.closure.selectionStart,
             Call.closure.selectionEnd, t)

\* C17: a key-down KeyA, KeyC, KeyX or KeyV with ctrl or meta held and alt
\* not held is consumed.  The handler leaves the content as it is and
\* resolves to "none", at once or, when it makes a bridge call, when the call
\* settles, whether that succeeds, fails or returns the empty string; what
\* the settled call puts into the content is the clipboard text or nothing,
\* never the letter of the key.
C17_ShortcutConsumed ==
    /\ ShortcutDown(ClipboardCodes) =>
          /\ ran[1].outcome \in {"none", "pending"}
          /\ ran[1].outcome = "pending" <=> ~NoBridgeCall
          /\ value = Was.value
    /\ Settled("write_clipboard_text") =>
          /\ ran[1].outcome = "none"
          /\ Call.code \in {"KeyC", "KeyX"}
          /\ IF Call.code = "KeyC" THEN TextUnchanged
             ELSE ReplacedInClosure(<<>>)
    /\ Settled("read_clipboard_text") =>
          /\ ran[1].outcome = "none"
          /\ Call.code = "KeyV"
          /\ IF ReadText = <<>> THEN TextUnchanged
             ELSE ReplacedInClosure(ReadText)
\* Ctrl+V whose event carries the composed text "a": nothing was typed, the
\* read of the clipboard is in flight.
C17_Witness ==
    /\ ShortcutDown({"KeyV"})
    /\ Ev.text = << <<"a">> >>
    /\ value = Was.value
    /\ ran[1].outcome = "pending"
    /\ Len(pending) = Len(Was.pending) + 1

\* A key event is handled while the write of a cut is in flight and the
\* content is still the one the cut was made on.
KeyHandledBeforeCutRemoved ==
    /\ KeyTask
    /\ \E i \in DOMAIN Was.pending :
          /\ Was.pending[i].code = "KeyX"
          /\ Was.value = Was.pending[i].closure.value

\* C18: a cut (ctrl or meta + KeyX over a non-empty selection) removes the
\* selected range before the clipboard write resolves: the handler that made
\* the call has already removed it, so no key event is handled while the
\* write is in flight and the selected text is still in the content.
C18_CutRemovesBeforeWriteResolves ==
    /\ (ShortcutDown({"KeyX"}) /\ Was.selectionStart # Was.selectionEnd) =>
          Replaced(Was.value, Was.selectionStart, Was.selectionEnd, <<>>)
    /\ ~KeyHandledBeforeCutRemoved

\* C19: a paste inserts the clipboard text into the content and at the
\* selection that are current when the read resolves: the result is
\* current[0..min) + clipboard + current[max..), so no edit made since the
\* request is lost.
C19_PasteAtCurrentSelection ==
    (Settled("read_clipboard_text") /\ ReadText # <<>>) =>
        Replaced(Was.value, Was.selectionStart, Was.selectionEnd, ReadText)
\* The same, when neither content nor selection changed since the request.
C19_WhenNothingChanged ==
    (/\ Settled("read_clipboard_text") /\ ReadText # <<>>
     /\ Call.closure = [value |-> Was.value,
                        selectionStart |-> Was.selectionStart,
                        selectionEnd |-> Was.selectionEnd])
        => C19_PasteAtCurrentSelection
\* A paste settled on a content that was edited since the request.
C19_Interleaved ==
    /\ Settled("read_clipboard_text") /\ ReadText # <<>>
    /\ Call.closure.value # Was.value

\* C20: clipboard failures are swallowed.  A cut whose write failed still
\* removes the selected range; a copy whose write failed changes neither
\* content nor selection; a paste whose read failed or returned the empty
\* string changes neither; each resolves to "none", and nothing else of the
\* state changes but the call being over.
C20_ClipboardFailuresSwallowed ==
    /\ (Settled("write_clipboard_text") /\ ~ran[1].input[2]) =>
          /\ IF Call.code = "KeyX"
             THEN /\ ReplacedInClosure(<<>>)
                  /\ Len(value) < Len(Call.closure.value)
             ELSE TextUnchanged /\ SessionUnchanged
          /\ ran[1].outcome = "none"
          /\ Len(pending) = Len(Was.pending) - 1
    /\ (Settled("read_clipboard_text") /\ ReadText = <<>>) =>
          /\ TextUnchanged /\ SessionUnchanged
          /\ ran[1].outcome = "none"
          /\ Len(pending) = Len(Was.pending) - 1
\* The write of a cut failed and the selected range is gone.
C20_Witness ==
    /\ Settled("write_clipboard_text") /\ ~ran[1].input[2]
    /\ Call.code = "KeyX"
    /\ Len(value) < Len(Was.value)

\* The call a key task has just made on the bridge.
NewCall == pending[Len(pending)]
\* The selected text of the state the task started in: content[min..max).
WasSelectedText ==
    SubSeq(Was.value, Lower(Was.selectionStart, Was.selectionEnd) + 1,
           Upper(Was.selectionStart, Was.selectionEnd))

\* C21: copy and cut (ctrl or meta + KeyC or KeyX) send exactly
\* content[min..max) to the bridge, min and max being the ordered selection
\* ends.  With an empty selection neither makes a bridge call nor changes any
\* state.  A copy never changes content or selection, neither at the key nor
\* when its write settles.  A cut changes nothing at the key; when its write
\* settles the content is the content the cut was made on with exactly that
\* range removed, the caret collapsed at the start of the range.
C21_CopyCutRange ==
    /\ ShortcutDown({"KeyC", "KeyX"}) =>
          /\ TextUnchanged
          /\ IF Was.selectionStart = Was.selectionEnd
             THEN NoBridgeCall /\ SessionUnchanged /\ mode = Was.mode
             ELSE /\ Len(pending) = Len(Was.pending) + 1
                  /\ Calls(SubSeq(pending, 1, Len(Was.pending)))
                        = Calls(Was.pending)
                  /\ NewCall.command = "write_clipboard_text"
                  /\ NewCall.code = Ev.code
                  /\ NewCall.arg = WasSelectedText
                  /\ NewCall.arg # <<>>
    /\ Settled("write_clipboard_text") =>
          /\ Call.arg = SubSeq(Call.closure.value,
                               Lower(Call.closure.selectionStart,
                                     Call.closure.selectionEnd) + 1,
                               Upper(Call.closure.selectionStart,
                                     Call.closure.selectionEnd))
          /\ IF Call.code = "KeyC" THEN TextUnchanged
             ELSE /\ ReplacedInClosure(<<>>)
                  /\ Len(value) = Len(Call.closure.value) - Len(Call.arg)
                  /\ selectionStart = selectionEnd
                  /\ selectionStart = Lower(Call.closure.selectionStart,
                                            Call.closure.selectionEnd)
\* The write of a cut made on a selection that runs backwards (selectionEnd
\* before selectionStart) settles: the range is gone and the caret is at its
\* start.
C21_Witness ==
    /\ Settled("write_clipboard_text")
    /\ Call.code = "KeyX"
    /\ Call.closure.selectionEnd < Call.closure.selectionStart
    /\ Call.arg # <<>>
    /\ selectionStart = Call.closure.selectionEnd
    /\ Len(value) < Len(Call.closure.value)

\* The composed text of the event, the empty string if it has none.
Composed == IF Ev.text = <<>> THEN <<>> ELSE Ev.text[1]
HasControl(s) == \E i \in 1..Len(s) : s[i] \in ControlChars
NonAsciiUnits == {"<EACUTE>", "<NBSP>", HighSurrogate, LowSurrogate}
IsAscii(s) == \A i \in 1..Len(s) : s[i] \notin NonAsciiUnits
\* The ASCII letter of a letter key, uppercase iff shift differs from caps.
LetterOfKey ==
    LET upper == letterOfCode[Ev.code]
        caps == (Ev.caps = "true")
    IN  IF Ev.shift # caps THEN upper ELSE LowerOf[upper]
\* The task replaced the selected range by t and resolved to "none".
Typed(t) ==
    /\ Replaced(Was.value, Was.selectionStart, Was.selectionEnd, t)
    /\ ran[1].outcome = "none"

\* C22: a key-down of a letter key (KeyA..KeyZ) with none of ctrl, meta and
\* alt inserts the ASCII letter of the key, uppercase iff shift XOR caps (an
\* absent caps flag counts as false), whenever the composed text is absent,
\* empty, contains a control character or is ASCII; it inserts the composed
\* text only when that is not ASCII.
C22_LetterKey ==
    PlainDown(DOMAIN letterOfCode) =>
        IF Composed # <<>> /\ ~HasControl(Composed) /\ ~IsAscii(Composed)
        THEN Typed(Composed)
        ELSE Typed(<<LetterOfKey>>)
\* The same for the composed texts that are absent, empty, hold a control
\* character, are one ASCII letter or are not ASCII.
C22_OnLettersAndNonAscii ==
    (/\ PlainDown(DOMAIN letterOfCode)
     /\ \/ Composed = <<>>
        \/ HasControl(Composed)
        \/ ~IsAscii(Composed)
        \/ Len(Composed) = 1 /\ Composed[1] \in UpperLetters \cup LowerLetters)
        => C22_LetterKey
\* KeyM whose composed text is "," has put the comma into the content.
C22_AsciiComposedInserted ==
    /\ PlainDown({"KeyM"})
    /\ Composed = <<",">>
    /\ Typed(<<",">>)

\* The keys that produce text and are no letter key: digits, punctuation,
\* the numeric keypad, Space.
TextCodesButLetters ==
    DOMAIN shiftedNumberMap \cup DOMAIN shiftedSymbolMap
        \cup DOMAIN numpadDigitOfCode \cup DOMAIN numpadOperatorOfCode
        \cup {"Space"}
Usable(s) == s # <<>> /\ ~HasControl(s)

\* C23: a key-down of a text-producing key that is no letter key (a digit,
\* punctuation, a numpad key, Space) whose event carries a composed text
\* that is non-empty and free of control characters inserts that composed
\* text, not the character of the table; the character of the table is
\* inserted only when no usable composed text is present.
C23_ComposedBeforeTable ==
    PlainDown(TextCodesButLetters) =>
        IF Usable(Composed)
        THEN Typed(Composed)
        ELSE Typed(mapPrintableCharacter(Ev.code, Ev.shift)[1])
\* The same for Space and the digits of the numeric keypad, and for every
\* key when no usable composed text is present.
C23_OnSpaceAndNumpadDigits ==
    (/\ PlainDown(TextCodesButLetters)
     /\ Ev.code \notin forceCodeMappedCodes \/ ~Usable(Composed))
        => C23_ComposedBeforeTable
\* Digit2 whose composed text is U+00E9 has put "2" into the content.
C23_TableCharacterInserted ==
    /\ PlainDown({"Digit2"}) /\ ~Ev.shift
    /\ Composed = <<"<EACUTE>">>
    /\ Typed(<<"2">>)

\* A key-down without composed text and without caps information.
Key(code, m) == KeyEvent(code, <<>>, "down", m, "absent")
\* The task handled that key on content c with the caret collapsed at its
\* end.
KeyOn(c, code, m) ==
    /\ FocuslessKeyTask
    /\ Ev = Key(code, m)
    /\ Was.value = c
    /\ Was.selectionStart = Len(c) /\ Was.selectionEnd = Len(c)
\* The content is c, the caret is collapsed at its end and the handler
\* resolved to the outcome.
Gives(c, outcome) ==
    /\ value = c
    /\ selectionStart = Len(c) /\ selectionEnd = Len(c)
    /\ ran[1].outcome = outcome
\* The component on empty content, and the state and outcome after a key
\* handled to completion in state s.
Mounted ==
    Render([Current EXCEPT !.value = <<>>, !.selectionStart = 0,
                           !.selectionEnd = 0, !.deps = <<>>])
AfterKey(s, event) == Render(handleGlobalKey(s, "focusless", event).state)
OutcomeOfKey(s, event) == handleGlobalKey(s, "focusless", event).outcome
HiOneKeys ==
    <<Key("KeyH", ShiftOnly), Key("KeyI", NoModifiers),
      Key("Space", NoModifiers), Key("Digit1", NoModifiers)>>
RECURSIVE AfterKeys(_, _, _)
AfterKeys(s, keys, n) ==
    IF n = 0 THEN s ELSE AfterKey(AfterKeys(s, keys, n - 1), keys[n])

\* C24: from empty content with the caret at 0 in focusless mode, the
\* key-downs KeyH with shift, KeyI, Space and Digit1 without shift, each
\* handled before the next, give "H", "Hi", "Hi " and "Hi 1" with a collapsed
\* caret at 1, 2, 3 and 4 and the outcome "none" each; Enter then resolves to
\* "submit" and leaves content and caret as they are.
C24_HiOne ==
    /\ KeyOn(<<>>, "KeyH", ShiftOnly) => Gives(<<"H">>, "none")
    /\ KeyOn(<<"H">>, "KeyI", NoModifiers) => Gives(<<"H", "i">>, "none")
    /\ KeyOn(<<"H", "i">>, "Space", NoModifiers)
          => Gives(<<"H", "i", " ">>, "none")
    /\ KeyOn(<<"H", "i", " ">>, "Digit1", NoModifiers) => Gives(HiOne, "none")
    /\ KeyOn(HiOne, "Enter", NoModifiers) => Gives(HiOne, "submit")
    /\ \A n \in 1..4 :
          LET s == AfterKeys(Mounted, HiOneKeys, n - 1)
              t == AfterKey(s, HiOneKeys[n])
          IN  /\ OutcomeOfKey(s, HiOneKeys[n]) = "none"
              /\ t.value = SubSeq(HiOne, 1, n)
              /\ t.selectionStart = n /\ t.selectionEnd = n
    /\ LET s == AfterKeys(Mounted, HiOneKeys, 4)
           t == AfterKey(s, Key("Enter", NoModifiers))
       IN  /\ OutcomeOfKey(s, Key("Enter", NoModifiers)) = "submit"
           /\ t.value = HiOne
           /\ t.selectionStart = 4 /\ t.selectionEnd = 4
\* Enter was handled on "Hi 1" with the caret at 4 and resolved to "submit".
C24_Witness ==
    /\ KeyOn(HiOne, "Enter", NoModifiers)
    /\ Gives(HiOne, "submit")

\* The surrounding application has just switched the mode.
ModeSwitched == ran # <<>> /\ ran[1].task = "setMode"

\* C25: a switch of the mode, from "ime" to "focusless" or back, at any
\* point of an editing sequence, changes neither the content nor
\* selectionStart nor selectionEnd.
C25_ModeSwitchKeepsText ==
    ModeSwitched =>
        /\ mode # Was.mode
        /\ mode = ran[1].input[1]
        /\ value = Was.value
        /\ selectionStart = Was.selectionStart
        /\ selectionEnd = Was.selectionEnd
\* The mode went from focusless to ime on a content of two code units that
\* is selected backwards.
C25_Witness ==
    /\ ModeSwitched
    /\ Was.mode = "focusless" /\ mode = "ime"
    /\ Len(value) = 2
    /\ selectionStart = 2 /\ selectionEnd = 0
\* The mode went from ime to focusless with the caret inside the content.
C25_WitnessBack ==
    /\ ModeSwitched
    /\ Was.mode = "ime" /\ mode = "focusless"
    /\ Len(value) = 2
    /\ selectionStart = 1 /\ selectionEnd = 1

StructuralCodes ==
    {"Escape", "ArrowDown", "ArrowUp", "Tab", "Enter", "NumpadEnter",
     "Backspace", "Delete", "ArrowLeft", "ArrowRight", "Home", "End"}
\* A key-down that no branch of the handler is for: a modifier or function
\* key, a code outside every table that carries no usable composed text, or
\* a combination with ctrl, meta or alt that is no clipboard shortcut.
Unrecognized(e) ==
    /\ e.phase = "down"
    /\ IF Plain(e)
       THEN \/ e.code \in (nonTextKeyCodes \ StructuralCodes)
            \/ e.code \in functionKeyCodes
            \/ /\ e.code \notin nonTextKeyCodes \cup DOMAIN letterOfCode
                                    \cup TextCodesButLetters
               /\ ~Usable(IF e.text = <<>> THEN <<>>
                          ELSE stripCarriageReturns(e.text[1]))
       ELSE ~((e.ctrl \/ e.meta) /\ ~e.alt /\ e.code \in ClipboardCodes)

\* C26: handleGlobalKey never fails.  For every event, whatever its code,
\* modifiers, composed text and phase, and for every result or failure of
\* the clipboard bridge, the promise resolves to "none", "submit" or
\* "cancel" and never rejects (it is pending only while a bridge call it
\* made is in flight, and resolves when that call settles); an unrecognized
\* key or key combination changes no state.
C26_NeverFails ==
    /\ KeyTask =>
          /\ ran[1].outcome \in {"none", "submit", "cancel", "pending"}
          /\ ran[1].outcome = "pending" => ~NoBridgeCall
    /\ (Settled("write_clipboard_text") \/ Settled("read_clipboard_text")) =>
          /\ ran[1].outcome \in {"none", "submit", "cancel"}
          /\ Len(pending) = Len(Was.pending) - 1
    /\ (FocuslessKeyTask /\ Unrecognized(Ev)) =>
          /\ ran[1].outcome = "none"
          /\ TextUnchanged /\ SessionUnchanged /\ NoBridgeCall
          /\ mode = Was.mode /\ usernames = Was.usernames
\* A key-down of an unknown code (IntlBackslash) whose composed text is a
\* control character was handled on a non-empty content.
C26_Witness ==
    /\ FocuslessKeyTask
    /\ Ev.code = "IntlBackslash" /\ Unrecognized(Ev)
    /\ Len(value) > 0
    /\ ran[1].outcome = "none"

\* A cut or a paste goes on after its bridge call and changes content or
\* selection.
ClipboardEditApplied ==
    /\ Settled("write_clipboard_text") \/ Settled("read_clipboard_text")
    /\ Call.code \in {"KeyX", "KeyV"}
    /\ ~TextUnchanged
\* Content and selection are still those the handler held when it made the
\* call: nothing was applied since.
NothingAppliedSinceCall ==
    Call.closure = [value |-> Was.value,
                    selectionStart |-> Was.selectionStart,
                    selectionEnd |-> Was.selectionEnd]

\* C27: no two edits interleave.  Every change of content and selection
\* caused by a key event is applied before a later key event is handled: a
\* cut or a paste started by one event never changes the buffer after a
\* later event has been applied, working on the content or selection from
\* before that later event.
C27_NoInterleavedEdit ==
    ClipboardEditApplied => NothingAppliedSinceCall
\* A cut removes its range from the content it was made on after a later key
\* has replaced that content.
C27_CutAfterLaterKey ==
    /\ ClipboardEditApplied
    /\ Call.code = "KeyX"
    /\ Call.age > 0
    /\ Was.value # Call.closure.value
    /\ ReplacedInClosure(<<>>)

SessionNow ==
    [suggestions |-> suggestions, showSuggestions |-> showSuggestions,
     activeIndex |-> activeIndex]

\* C28: when handleGlobalKey returns for an event that changed content or
\* selection, the suggestion session already is the one of the new text
\* state: candidates, visibility and activeIndex are those computed from the
\* new content and caret, so that no later key is read against suggestions
\* of an older content or selection.
C28_SessionCurrentAtReturn ==
    (KeyTask /\ ~TextUnchanged) => ran[1].atReturn = SessionNow
\* The same for the events that changed the content.
C28_OnContentChange ==
    (KeyTask /\ value # Was.value) => ran[1].atReturn = SessionNow
\* ArrowLeft took the caret out of the word "@": when the handler returned
\* the candidates of "@" were still shown, the new caret has none.
C28_StaleAtReturn ==
    /\ PlainDown({"ArrowLeft"})
    /\ Was.value = <<"@">> /\ Was.selectionStart = 1 /\ Was.selectionEnd = 1
    /\ selectionStart = 0 /\ selectionEnd = 0
    /\ ran[1].atReturn.showSuggestions
    /\ ran[1].atReturn.suggestions # <<>>
    /\ ~showSuggestions /\ suggestions = <<>>

\* The encoding of one Unicode scalar value in a JavaScript string: one code
\* unit that is no surrogate, or a high surrogate followed by a low one.
IsScalar(t) ==
    \/ Len(t) = 1 /\ t[1] \notin {HighSurrogate, LowSurrogate}
    \/ t = <<HighSurrogate, LowSurrogate>>
\* Offset k of content c lies between the two code units of one scalar value.
InsideScalar(c, k) ==
    /\ k \in 1..(Len(c) - 1)
    /\ c[k] = HighSurrogate /\ c[k + 1] = LowSurrogate
\* Every surrogate of c is half of a pair.
WellFormed(c) ==
    \A i \in 1..Len(c) :
        /\ c[i] = HighSurrogate => (i < Len(c) /\ c[i + 1] = LowSurrogate)
        /\ c[i] = LowSurrogate => (i > 1 /\ c[i - 1] = HighSurrogate)
\* The offsets one scalar value before and after offset k of content c.
ScalarBefore(c, k) ==
    IF k >= 2 /\ InsideScalar(c, k - 1) THEN k - 2 ELSE Max(k - 1, 0)
ScalarAfter(c, k) ==
    IF InsideScalar(c, k + 1) THEN k + 2 ELSE Min(k + 1, Len(c))
\* State s is the current state with the scalar value t inserted at the
\* collapsed caret.
InsertedAtCaret(s, t) ==
    /\ IsScalar(t)
    /\ s.value = Upto(value, selectionStart) \o t \o From(value, selectionStart)
    /\ s.selectionStart = selectionStart + Len(t)
    /\ s.selectionEnd = selectionStart + Len(t)
RestoredBy(s) ==
    /\ s.value = value
    /\ s.selectionStart = selectionStart
    /\ s.selectionEnd = selectionEnd
\* The scalar values that the events of the model insert.
TypedScalars ==
    {t \in {e.text[1] : e \in {x \in TypeTextEvents : x.text # <<>>}}
           \cup {<<u>> : u \in {"H", "h", "i", "m", " ", "1", "2", "!", ";"}} :
        IsScalar(t)}
IdleCollapsed == ran = <<>> /\ selectionStart = selectionEnd

\* C29: round trip.  From any state with a collapsed caret, a key that
\* inserts one Unicode scalar value (one outside the Basic Multilingual
\* Plane included) followed by one Backspace restores the content and the
\* caret from before the insertion.
C29_RoundTrip ==
    IdleCollapsed =>
        \A event \in TypeTextEvents :
            LET typed == AfterKey(Current, event)
            IN  (\E t \in TypedScalars : InsertedAtCaret(typed, t))
                => RestoredBy(AfterKey(typed, Key("Backspace", NoModifiers)))
\* The same for the scalar values of the Basic Multilingual Plane.
C29_OnBasicPlane ==
    IdleCollapsed =>
        \A event \in TypeTextEvents :
            LET typed == AfterKey(Current, event)
            IN  (\E t \in TypedScalars : Len(t) = 1 /\ InsertedAtCaret(typed, t))
                => RestoredBy(AfterKey(typed, Key("Backspace", NoModifiers)))
\* Backspace after U+1F600 was typed into "Hi" has left its high surrogate.
C29_HalfRemains ==
    /\ PlainDown({"Backspace"})
    /\ Was.value = <<"H", "i", HighSurrogate, LowSurrogate>>
    /\ Was.selectionStart = 4 /\ Was.selectionEnd = 4
    /\ value = <<"H", "i", HighSurrogate>>
    /\ selectionStart = 3 /\ selectionEnd = 3

\* A plain key-down of the code on a well-formed content with the caret
\* collapsed on a scalar boundary.
EditOnBoundary(code) ==
    /\ PlainDown({code}) /\ ~Ev.shift
    /\ Was.selectionStart = Was.selectionEnd
    /\ WellFormed(Was.value)
    /\ ~InsideScalar(Was.value, Was.selectionStart)
CaretAt(k) == selectionStart = k /\ selectionEnd = k

\* C30: offsets and steps are counted in whole Unicode scalar values.
\* selectionStart and selectionEnd never lie strictly inside the encoding of
\* one scalar value; one ArrowLeft or ArrowRight moves the caret over exactly
\* one scalar value; one Backspace or Delete removes exactly one scalar
\* value, never half of a character that takes two code units.
C30_WholeScalars ==
    /\ ~InsideScalar(value, selectionStart)
    /\ ~InsideScalar(value, selectionEnd)
    /\ EditOnBoundary("ArrowLeft") =>
          /\ value = Was.value
          /\ CaretAt(ScalarBefore(Was.value, Was.selectionStart))
    /\ EditOnBoundary("ArrowRight") =>
          /\ value = Was.value
          /\ CaretAt(ScalarAfter(Was.value, Was.selectionStart))
    /\ EditOnBoundary("Backspace") =>
          /\ value = Upto(Was.value, ScalarBefore(Was.value, Was.selectionStart))
                        \o From(Was.value, Was.selectionStart)
          /\ CaretAt(ScalarBefore(Was.value, Was.selectionStart))
    /\ EditOnBoundary("Delete") =>
          /\ value = Upto(Was.value, Was.selectionStart)
                        \o From(Was.value, ScalarAfter(Was.value, Was.selectionStart))
          /\ CaretAt(Was.selectionStart)
\* The same on contents without a scalar value of two code units.
C30_OnBasicPlane ==
    (\A i \in 1..Len(value) : value[i] \notin {HighSurrogate, LowSurrogate})
    /\ (ran # <<>> =>
          \A i \in 1..Len(Was.value) :
              Was.value[i] \notin {HighSurrogate, LowSurrogate})
        => C30_WholeScalars
\* ArrowLeft from the end of "Hi" + U+1F600 has put the caret between the
\* two surrogates.
C30_CaretInsideScalar ==
    /\ PlainDown({"ArrowLeft"})
    /\ value = <<"H", "i", HighSurrogate, LowSurrogate>>
    /\ Was.selectionStart = 4 /\ Was.selectionEnd = 4
    /\ selectionStart = 3 /\ selectionEnd = 3
    /\ InsideScalar(value, selectionStart)

\* The native field of ime mode has just reported a change.
ImeChanged == ran # <<>> /\ ran[1].task = "onChange"
FieldValue == ran[1].input[1]
FieldStart == ran[1].input[2]
FieldEnd == ran[1].input[3]

\* C31: in ime mode, after each change event of the native field the
\* mirrored state is what the field reported: the content is the field's
\* value and (selectionStart, selectionEnd) is the field's selection, for
\* every change, one that makes the value longer included (one character
\* typed at the end of the text gives a caret equal to the new length).
C31_ImeMirror ==
    ImeChanged =>
        /\ value = FieldValue
        /\ selectionStart = FieldStart
        /\ selectionEnd = FieldEnd
\* The same for the changes whose reported selection is within the length
\* the content had before the change.
C31_WithinOldLength ==
    (/\ ImeChanged
     /\ FieldStart <= Len(Was.value) /\ FieldEnd <= Len(Was.value))
        => C31_ImeMirror
\* One character typed into the empty field: the field reports the value "a"
\* and the caret 1, the mirrored caret is 0.
C31_CaretBehind ==
    /\ ImeChanged
    /\ Was.value = <<>>
    /\ FieldValue = <<"a">> /\ FieldStart = 1 /\ FieldEnd = 1
    /\ value = <<"a">>
    /\ selectionStart = 0 /\ selectionEnd = 0

\* The surrounding application has just replaced the content.
ValueReplaced == ran # <<>> /\ ran[1].task = "setValue"

Resolved == ran # <<>> /\ ran[1].task = "mapPrintableCharacter"
\* The US layout: the unshifted and the shifted character of the digit keys
\* and of the eleven punctuation keys, and the keys of the numeric keypad.
UsDigitKeys ==
    [Digit0 |-> <<"0", ")">>, Digit1 |-> <<"1", "!">>, Digit2 |-> <<"2", "@">>,
     Digit3 |-> <<"3", "#">>, Digit4 |-> <<"4", "$">>, Digit5 |-> <<"5", "%">>,
     Digit6 |-> <<"6", "^">>, Digit7 |-> <<"7", "&">>, Digit8 |-> <<"8", "*">>,
     Digit9 |-> <<"9", "(">>]
UsPunctuationKeys ==
    [Backquote |-> <<"<GRAVE>", "~">>, Minus |-> <<"-", "_">>,
     Equal |-> <<"=", "+">>, BracketLeft |-> <<"[", "{">>,
     BracketRight |-> <<"]", "}">>, Backslash |-> <<"\\", "|">>,
     Semicolon |-> <<";", ":">>, Quote |-> <<"'", "\"">>,
     Comma |-> <<",", "<">>, Period |-> <<".", ">">>, Slash |-> <<"/", "?">>]
UsNumpadKeys ==
    [Numpad0 |-> "0", Numpad1 |-> "1", Numpad2 |-> "2", Numpad3 |-> "3",
     Numpad4 |-> "4", Numpad5 |-> "5", Numpad6 |-> "6", Numpad7 |-> "7",
     Numpad8 |-> "8", Numpad9 |-> "9", NumpadAdd |-> "+",
     NumpadSubtract |-> "-", NumpadMultiply |-> "*", NumpadDivide |-> "/",
     NumpadDecimal |-> "."]
UsLetterKeys ==
    [KeyA |-> <<"a", "A">>, KeyB |-> <<"b", "B">>, KeyC |-> <<"c", "C">>,
     KeyD |-> <<"d", "D">>, KeyE |-> <<"e", "E">>, KeyF |-> <<"f", "F">>,
     KeyG |-> <<"g", "G">>, KeyH |-> <<"h", "H">>, KeyI |-> <<"i", "I">>,
     KeyJ |-> <<"j", "J">>, KeyK |-> <<"k", "K">>, KeyL |-> <<"l", "L">>,
     KeyM |-> <<"m", "M">>, KeyN |-> <<"n", "N">>, KeyO |-> <<"o", "O">>,
     KeyP |-> <<"p", "P">>, KeyQ |-> <<"q", "Q">>, KeyR |-> <<"r", "R">>,
     KeyS |-> <<"s", "S">>, KeyT |-> <<"t", "T">>, KeyU |-> <<"u", "U">>,
     KeyV |-> <<"v", "V">>, KeyW |-> <<"w", "W">>, KeyX |-> <<"x", "X">>,
     KeyY |-> <<"y", "Y">>, KeyZ |-> <<"z", "Z">>]
\* <<>> for null, <<character>> otherwise.
UsLayout(code, shift) ==
    LET pick(pair) == IF shift THEN <<pair[2]>> ELSE <<pair[1]>>
    IN  IF code = "Space" THEN <<" ">>
        ELSE IF code \in DOMAIN UsLetterKeys THEN pick(UsLetterKeys[code])
        ELSE IF code \in DOMAIN UsDigitKeys THEN pick(UsDigitKeys[code])
        ELSE IF code \in DOMAIN UsNumpadKeys THEN <<UsNumpadKeys[code]>>
        ELSE IF code \in DOMAIN UsPunctuationKeys
        THEN pick(UsPunctuationKeys[code])
        ELSE <<>>

\* C33: the table resolver is a fixed function of (code, shift).  Space
\* gives " "; KeyA..KeyZ give the letter, uppercase iff shift; Digit0..Digit9
\* give the digit without shift and the symbol of )!@#$%^&*( with shift;
\* Numpad0..Numpad9 give the digit and NumpadAdd, NumpadSubtract,
\* NumpadMultiply, NumpadDivide and NumpadDecimal give + - * / . whatever
\* shift is; the eleven punctuation keys give their unshifted or shifted
\* symbol of the US layout; every other code gives null.
C33_TableResolver ==
    Resolved =>
        /\ ran[1].result = [i \in DOMAIN UsLayout(ran[1].input[1], ran[1].input[2])
                              |-> <<UsLayout(ran[1].input[1], ran[1].input[2])[i]>>]
        /\ TextUnchanged /\ SessionUnchanged
\* Digit1 with shift resolved to "!".
C33_Witness ==
    /\ Resolved
    /\ ran[1].input = <<"Digit1", TRUE>>
    /\ ran[1].result = << <<"!">> >>

\* F1..F12, the pure modifier keys, the lock keys, PageUp, PageDown, Insert.
InertCodes ==
    {"F1", "F2", "F3", "F4", "F5", "F6", "F7", "F8", "F9", "F10", "F11", "F12",
     "ShiftLeft", "ShiftRight", "ControlLeft", "ControlRight", "AltLeft",
     "AltRight", "MetaLeft", "MetaRight", "CapsLock", "NumLock", "ScrollLock",
     "PageUp", "PageDown", "Insert"}
\* ctrl or meta with KeyA, KeyC, KeyX or KeyV, alt not held.
IsClipboardShortcut(e) ==
    (e.ctrl \/ e.meta) /\ ~e.alt /\ e.code \in ClipboardCodes

\* C34: the function keys F1..F12, the pure modifier keys, the lock keys,
\* PageUp, PageDown and Insert, and any key pressed with ctrl, meta or alt
\* held other than the four clipboard shortcuts, never insert text and change
\* neither the content nor the selection, even when the event carries a
\* non-empty composed text.
C34_InertKeys ==
    (/\ FocuslessKeyTask
     /\ Ev.phase = "down"
     /\ IF Plain(Ev) THEN Ev.code \in InertCodes ELSE ~IsClipboardShortcut(Ev))
        => /\ TextUnchanged
           /\ ran[1].outcome = "none"
\* F5 whose composed text is "x" was pressed on the selection (0, 2) of "ab"
\* and left content and selection as they were.
C34_Witness ==
    /\ FocuslessKeyTask
    /\ Ev.code = "F5" /\ Plain(Ev) /\ Ev.text = << <<"x">> >>
    /\ Was.value = <<"a", "b">>
    /\ Was.selectionStart = 0 /\ Was.selectionEnd = 2
    /\ TextUnchanged

\* The character of the table for the key of the event, with the case of a
\* letter following shift XOR caps; <<>> if the table has none.
TableCharacter ==
    IF Ev.code \in DOMAIN letterOfCode THEN <<LetterOfKey>>
    ELSE UsLayout(Ev.code, Ev.shift)
HasNoControl(c) == \A i \in 1..Len(c) : c[i] \notin ControlChars

\* C35: a composed text that holds a control character (a code below 0x20,
\* or 0x7f) once its carriage returns are stripped is never inserted by a
\* key event: the key inserts its character of the table if the table has
\* one and nothing otherwise.  Hence no sequence of key events, pastes
\* aside, puts a control character into the content.
C35_NoControlCharacters ==
    /\ (/\ FocuslessKeyTask /\ Ev.phase = "down" /\ Plain(Ev)
        /\ Ev.code \notin StructuralCodes
        /\ HasControl(stripCarriageReturns(Composed)))
          => IF TableCharacter # <<>> THEN Typed(TableCharacter)
             ELSE TextUnchanged /\ ran[1].outcome = "none"
    /\ HasNoControl(value)
\* IntlBackslash, which the table does not have, carried "h" followed by
\* 0x7f and inserted nothing into "Hi".
C35_Witness ==
    /\ PlainDown({"IntlBackslash"})
    /\ Composed = <<"h", "<DEL>">>
    /\ Was.value = <<"H", "i">>
    /\ TextUnchanged

\* The component state a task started in.
StateOf(b) ==
    [value |-> b.value, selectionStart |-> b.selectionStart,
     selectionEnd |-> b.selectionEnd, suggestions |-> b.suggestions,
     showSuggestions |-> b.showSuggestions, activeIndex |-> b.activeIndex,
     usernames |-> b.usernames,
     deps |-> <<b.selectionEnd, b.selectionStart, b.usernames, b.value>>]
\* Handling the event in the state the task started in gives the outcome
\* and the state the task gave.
SameAsHandling(event) ==
    LET r == handleGlobalKey(StateOf(Was), Was.mode, event)
        t == Render(r.state)
    IN  /\ r.outcome = ran[1].outcome
        /\ t.value = value
        /\ t.selectionStart = selectionStart
        /\ t.selectionEnd = selectionEnd
        /\ SessionOf(t) = SessionNow

\* C36: what handling a key event gives depends only on the current state
\* and on the event's code, text, phase, ctrl, shift, alt, meta and caps.
\* Two events that differ only in repeat and timestamp, applied to equal
\* states, give equal outcomes and equal content, selection and suggestion
\* session: a repeated key-down is an ordinary key-down.
C36_RepeatAndTimestampIgnored ==
    KeyTask =>
        \A rp \in BOOLEAN, ts \in Timestamps :
            SameAsHandling([Ev EXCEPT !.repeat = rp, !.timestamp_ms = ts])
\* A repeated Backspace at time 530 has removed a code unit.
C36_Witness ==
    /\ KeyTask
    /\ Ev.code = "Backspace" /\ Ev.repeat /\ Ev.timestamp_ms = 530
    /\ Len(value) = Len(Was.value) - 1

\* A key-down that produces text: none of ctrl, meta and alt, a key of the
\* tables or a key that carries a usable composed text, and no key of
\* nonTextKeyCodes and no function key.
TextProducing(e) ==
    /\ e.phase = "down" /\ Plain(e)
    /\ e.code \notin nonTextKeyCodes \cup functionKeyCodes
    /\ \/ e.code \in DOMAIN letterOfCode \cup TextCodesButLetters
       \/ Usable(IF e.text = <<>> THEN <<>>
                 ELSE stripCarriageReturns(e.text[1]))

\* C37: the content is changed only by text-producing keys, Backspace,
\* Delete, cut, a paste with non-empty clipboard text and Tab with visible
\* suggestions.  ArrowLeft, ArrowRight, Home and End (with or without
\* shift), ArrowUp, ArrowDown, select-all, copy, Escape and Enter never
\* change the content, and Escape and Enter leave the selection as it is
\* too.
C37_ContentFrame ==
    /\ (KeyTask /\ value # Was.value) =>
          /\ Was.mode = "focusless"
          /\ \/ TextProducing(Ev)
             \/ PlainDown({"Backspace", "Delete"})
             \/ PlainDown({"Tab"}) /\ WasVisible
    /\ (Settled("write_clipboard_text") /\ value # Was.value) =>
          Call.code = "KeyX"
    /\ (Settled("read_clipboard_text") /\ value # Was.value) =>
          ReadText # <<>>
    /\ PlainDown({"ArrowLeft", "ArrowRight", "Home", "End", "ArrowUp",
                  "ArrowDown"}) => value = Was.value
    /\ ShortcutDown({"KeyA", "KeyC"}) => value = Was.value
    /\ (Settled("write_clipboard_text") /\ Call.code = "KeyC") => TextUnchanged
    /\ PlainDown({"Escape", "Enter", "NumpadEnter"}) => TextUnchanged
\* Escape was pressed on a selected content of two code units and resolved
\* to "cancel" without touching it.
C37_Witness ==
    /\ PlainDown({"Escape"})
    /\ Len(Was.value) = 2
    /\ Was.selectionStart = 2 /\ Was.selectionEnd = 0
    /\ ran[1].outcome = "cancel"
    /\ TextUnchanged

\* The caret that trigger detection used in the state before: the larger of
\* the two offsets.
DetectionCaret == Upper(Was.selectionStart, Was.selectionEnd)
\* The token that trigger detection matched in the state before, and the
\* offset of its first unit.
MatchedToken == LastToken(Upto(Was.value, DetectionCaret))
MatchedTokenStart == DetectionCaret - Len(MatchedToken)
InsertedText == Replacement(AcceptedSuggestion) \o <<" ">>

\* C38: the word that suggestion insertion replaces is the word that trigger
\* detection matched: for every content, every selection and every
\* separating whitespace unit the token that produced the visible
\* candidates begins with "@" or ":", the text before that token is kept,
\* the token up to the detection caret is replaced as a whole by the
\* inserted text, and the text behind that caret follows it.
C38_ReplacedRange ==
    Accepted =>
        /\ MatchedToken # <<>> /\ MatchedToken[1] \in {"@", ":"}
        /\ Upto(value, MatchedTokenStart) = Upto(Was.value, MatchedTokenStart)
        /\ value = Upto(Was.value, MatchedTokenStart) \o InsertedText
                    \o From(Was.value, DetectionCaret)
\* The same, where the caret is collapsed and the separating units of the
\* content are spaces, tabs and line feeds.
C38_OnCollapsedCaretAndPlainSeparators ==
    (/\ Accepted
     /\ Was.selectionStart = Was.selectionEnd
     /\ \A i \in 1..Len(Was.value) :
            Was.value[i] \in SpaceUnits => Was.value[i] \in {" ", "<TAB>", "<LF>"})
        => C38_ReplacedRange
\* A candidate accepted behind a no-break space: the matched token is "@" at
\* offset 2, the text before it is gone from the content.
C38_TextBeforeTokenRemoved ==
    /\ Accepted
    /\ Was.value = <<"a", "<NBSP>", "@">>
    /\ Was.selectionStart = 3 /\ Was.selectionEnd = 3
    /\ MatchedTokenStart = 2
    /\ value = InsertedText

-----------------------------------------------------------------------------
(* The chat provider.  sendMessage of ChatContext.tsx:89-132 runs up to its *)
(* first await and goes on when the awaited call settles; any number of     *)
(* calls may be waiting at a time, each with the locals it computed before  *)
(* its await.  The limits are the fallback limits and the provider serves   *)
(* one signed-in user, so that the map of ChatContext.tsx:36 has one entry. *)

FALLBACK_CHAT_LIMITS ==
    [maxMessageLength |-> 280, rateLimitCount |-> 4, rateLimitWindowMs |-> 5000]
chatLimits == FALLBACK_CHAT_LIMITS

\* String.prototype.trim: the text without the white space at its two ends.
RECURSIVE trimStart(_)
trimStart(s) ==
    IF s # <<>> /\ s[1] \in SpaceUnits THEN trimStart(Tail(s)) ELSE s
RECURSIVE trimEnd(_)
trimEnd(s) ==
    IF s # <<>> /\ s[Len(s)] \in SpaceUnits
    THEN trimEnd(SubSeq(s, 1, Len(s) - 1)) ELSE s
trim(s) == trimEnd(trimStart(s))

\* Math.ceil(ms / 1000) for ms >= 0.
CeilSeconds(ms) == (ms + 999) \div 1000

\* Bounds of the chat state space.
MaxSending == 2
MaxPublished == 5
MaxTicks == 2
\* The clock advances by half a rate-limit window.
TickMs == chatLimits.rateLimitWindowMs \div 2

Hi == <<"h", "i">>
\* A text one unit longer than the fallback limit.
TooLong == [i \in 1..(chatLimits.maxMessageLength + 1) |-> "a"]
Texts == {<<>>, <<" ", "<TAB>">>, <<" ">> \o Hi \o <<"<LF>">>, TooLong,
          <<" ">> \o TooLong}
JobIds == {"global", "place-1"}
\* What a rejected await throws: an Error with a message, or something else.
Thrown == {[isError |-> TRUE, message |-> "offline"], [isError |-> FALSE]}

\* The input component as it is mounted in focusless mode.
InputMounted ==
    /\ value = <<>>
    /\ selectionStart = 0
    /\ selectionEnd = 0
    /\ suggestions = <<>>
    /\ showSuggestions = FALSE
    /\ activeIndex = 0
    /\ mode = "focusless"
    /\ usernames = <<alice, bob>>
    /\ pending = <<>>
inputVars == <<value, selectionStart, selectionEnd, suggestions,
               showSuggestions, activeIndex, mode, usernames, pending>>

ChatInit ==
    /\ InputMounted
    /\ ran = <<>>
    /\ ProvidersMounted

\* The record of a step of sendMessage: the call's text, what the call
\* returned ("true", "false", or "pending" while it waits) and what was recorded
\* and published before the step.
RanSend(call, outcome) ==
    /\ ran' = <<[task |-> "sendMessage", input |-> <<call>>, outcome |-> outcome,
                  before |-> [sentTimestampsByScopeRef |-> sentTimestampsByScopeRef,
                              published |-> published]]>>
    /\ UNCHANGED <<inputVars, authVars>>

\* ChatContext.tsx:89-115: sendMessage up to its first await.
SendMessage(text) ==
    LET content == trim(text)
        cutoff == now - chatLimits.rateLimitWindowMs
        recentForUser == SelectSeq(sentTimestampsByScopeRef,
                                   LAMBDA timestamp : timestamp > cutoff)
        call == [text |-> text, content |-> content, now |-> now,
                 recentForUser |-> recentForUser, awaiting |-> "get_job_id",
                 activeJobId |-> "", alone |-> sending = <<>>]
    IN  /\ Len(sending) < MaxSending
        /\ Len(published) + Len(sending) < MaxPublished
        /\ IF content = <<>>
           THEN /\ RanSend(call, "false")
                /\ UNCHANGED chatVars
           ELSE IF Len(content) > chatLimits.maxMessageLength
           THEN /\ sendError' = <<"Message exceeds ", chatLimits.maxMessageLength,
                                  " characters.">>
                /\ RanSend(call, "false")
                /\ UNCHANGED <<now, currentJobId, sentTimestampsByScopeRef,
                               sending, published>>
           ELSE IF Len(recentForUser) >= chatLimits.rateLimitCount
           THEN LET retryAt == recentForUser[1] + chatLimits.rateLimitWindowMs
                    retryAfterMs == Max(0, retryAt - now)
                IN  /\ sendError' = <<"Rate limit hit. Try again in ",
                                      CeilSeconds(retryAfterMs), "s.">>
                    /\ RanSend(call, "false")
                    /\ UNCHANGED <<now, currentJobId, sentTimestampsByScopeRef,
                                   sending, published>>
           ELSE /\ sending' = [j \in 1..Len(sending) |->
                                  [sending[j] EXCEPT !.alone = FALSE]]
                               \o <<call>>
                /\ RanSend(call, "pending")
                /\ UNCHANGED <<now, currentJobId, sendError,
                               sentTimestampsByScopeRef, published>>

\* ChatContext.tsx:125-131: an awaited call of sendMessage has rejected.
SendFailed(i, err) ==
    /\ sendError' = IF err.isError THEN <<err.message>>
                    ELSE <<"Failed to send message.">>
    /\ sending' = Without(sending, i)
    /\ RanSend(sending[i], "false")
    /\ UNCHANGED <<now, currentJobId, sentTimestampsByScopeRef, published>>

\* ChatContext.tsx:60-64 and 117-118: get_job_id settles for the i-th call;
\* the job id becomes the current one, and the effect of ChatContext.tsx:43-46
\* clears the error when the job id has changed; focus_roblox is called.
JobIdSettled(i, nextJobId) ==
    /\ i \in 1..Len(sending)
    /\ sending[i].awaiting = "get_job_id"
    /\ currentJobId' = nextJobId
    /\ sendError' = IF nextJobId = currentJobId THEN sendError ELSE null
    /\ sending' = [sending EXCEPT ![i].awaiting = "focus_roblox",
                                  ![i].activeJobId = nextJobId]
    /\ RanSend(sending[i], "pending")
    /\ UNCHANGED <<now, sentTimestampsByScopeRef, published>>
JobIdFailed(i, err) ==
    /\ i \in 1..Len(sending)
    /\ sending[i].awaiting = "get_job_id"
    /\ SendFailed(i, err)

\* ChatContext.tsx:118-119: focus_roblox settles; chat.publish is called.
FocusSettled(i) ==
    /\ i \in 1..Len(sending)
    /\ sending[i].awaiting = "focus_roblox"
    /\ sending' = [sending EXCEPT ![i].awaiting = "publish"]
    /\ RanSend(sending[i], "pending")
    /\ UNCHANGED <<now, currentJobId, sendError, sentTimestampsByScopeRef,
                   published>>
FocusFailed(i, err) ==
    /\ i \in 1..Len(sending)
    /\ sending[i].awaiting = "focus_roblox"
    /\ SendFailed(i, err)

\* ChatContext.tsx:119-124: chat.publish has accepted the message; the call
\* records its send time behind the timestamps it read before its awaits.
\* The history keeps the content, the send time and whether another call
\* was in flight during this one.
PublishSettled(i) ==
    /\ i \in 1..Len(sending)
    /\ sending[i].awaiting = "publish"
    /\ published' = Append(published,
                           [content |-> sending[i].content,
                            now |-> sending[i].now,
                            alone |-> sending[i].alone])
    /\ sentTimestampsByScopeRef' =
            Append(sending[i].recentForUser, sending[i].now)
    /\ sendError' = null
    /\ sending' = Without(sending, i)
    /\ RanSend(sending[i], "true")
    /\ UNCHANGED <<now, currentJobId>>
PublishFailed(i, err) ==
    /\ i \in 1..Len(sending)
    /\ sending[i].awaiting = "publish"
    /\ SendFailed(i, err)

\* Time passes.
Tick ==
    /\ now < MaxTicks * TickMs
    /\ now' = now + TickMs
    /\ UNCHANGED <<currentJobId, sendError, sentTimestampsByScopeRef, sending,
                   published>>
    /\ UNCHANGED <<inputVars, ran, authVars>>

ChatNext ==
    \/ \E text \in Texts : SendMessage(text)
    \/ \E i \in 1..MaxSending, nextJobId \in JobIds : JobIdSettled(i, nextJobId)
    \/ \E i \in 1..MaxSending, err \in Thrown : JobIdFailed(i, err)
    \/ \E i \in 1..MaxSending : FocusSettled(i)
    \/ \E i \in 1..MaxSending, err \in Thrown : FocusFailed(i, err)
    \/ \E i \in 1..MaxSending : PublishSettled(i)
    \/ \E i \in 1..MaxSending, err \in Thrown : PublishFailed(i, err)
    \/ Tick

ChatSpec == ChatInit /\ [][ChatNext]_vars

\* The send times of the published messages that lie in the window of
\* rateLimitWindowMs that ends at t.
PublishedInWindow(t) ==
    {k \in 1..Len(published) :
        /\ published[k].now > t - chatLimits.rateLimitWindowMs
        /\ published[k].now <= t}
SendReturned(outcome) ==
    ran # <<>> /\ ran[1].task = "sendMessage" /\ ran[1].outcome = outcome

\* C39: for the user, no window of rateLimitWindowMs holds the send times of
\* more than rateLimitCount published messages, whatever the interleaving of
\* the sendMessage calls; and a send that returns false (empty text, too
\* long, rate limited, or a rejected await) records no timestamp and
\* publishes nothing.
C39_RateLimit ==
    /\ \A k \in 1..Len(published) :
            Cardinality(PublishedInWindow(published[k].now))
                <= chatLimits.rateLimitCount
    /\ SendReturned("false") =>
            /\ sentTimestampsByScopeRef = ran[1].before.sentTimestampsByScopeRef
            /\ published = ran[1].before.published
\* The same, while no published message was sent during another send.
C39_OnSendsOneAtATime ==
    (\A k \in 1..Len(published) : published[k].alone) => C39_RateLimit
\* Five messages published with the send time 0, one more than the limit.
C39_FiveInOneWindow ==
    /\ Len(published) = chatLimits.rateLimitCount + 1
    /\ \A k \in 1..Len(published) : published[k].now = 0

-----------------------------------------------------------------------------
(* The auth provider.  refreshSession of AuthContext.tsx:44-71 is entered   *)
(* by the interval callback (147-151), by the login mutation's onSuccess   *)
(* (74-78) and by loadAuth when auth.verify has rejected (99-100); it runs  *)
(* from await to await.  A read of the store returns, and a write of the    *)
(* store stores, at the step where its promise settles.                      *)

MaxRunning == 3
Jwts == {"jwt-1", "jwt-2"}
Session(jwt) == [jwt |-> jwt, user |-> [id |-> "1", name |-> "alice"]]
\* data.code of a rejected mutation; "" where the error carries none.
ErrorCodes == {"UNAUTHORIZED", "INTERNAL_SERVER_ERROR", ""}
\* The refresh requests in flight.
RefreshRequests(calls) == {i \in 1..Len(calls) : calls[i].at = "auth.refresh"}

AuthInit ==
    /\ InputMounted
    /\ ran = <<>>
    /\ ChatMounted
    /\ \E stored \in {null, Session("jwt-1")} : AuthMounted(stored)

\* The record of a step of the auth provider: the function that ran, its
\* call, what refreshSession returned ("true", "false", "pending" while it
\* waits, "" for the steps outside refreshSession) and the state the step
\* started in.  The task "refreshSession" is the entry of a call, the tasks
\* "refreshSession.<await>" are its continuations.
RanAuth(task, call, outcome) ==
    /\ ran' = <<[task |-> task, input |-> <<call>>, outcome |-> outcome,
                  before |-> [user |-> user, authSession |-> authSession,
                              isRefreshingRef |-> isRefreshingRef,
                              requests |-> Cardinality(RefreshRequests(running))]]>>
    /\ UNCHANGED <<inputVars, chatVars>>

\* The i-th of the calls returns to the event loop: loadAuth through its
\* finally (AuthContext.tsx:101-104), onSuccess of the login mutation
\* through setLoading(false) (77), the interval callback as it is.
Finish(calls, i) ==
    /\ running' = Without(calls, i)
    /\ loading' = IF calls[i].fn \in {"loadAuth", "login"} THEN FALSE ELSE loading
    /\ authReady' = IF calls[i].fn = "loadAuth" THEN TRUE ELSE authReady

\* AuthContext.tsx:44-51: the i-th of the calls enters refreshSession; it
\* returns false while isRefreshingRef is set, else it reads the store.
refreshSession(calls, i, clearOnAnyFailure) ==
    LET call == [calls[i] EXCEPT !.clearOnAnyFailure = clearOnAnyFailure,
                                 !.at = "getAuthSession"]
    IN  /\ IF isRefreshingRef
           THEN /\ Finish(calls, i)
                /\ RanAuth("refreshSession", call, "false")
                /\ UNCHANGED overlapped
           ELSE /\ running' = [calls EXCEPT ![i] = call]
                /\ overlapped' = (overlapped \/
                       \E j \in 1..Len(running) : running[j].at = "getAuthSession")
                /\ RanAuth("refreshSession", call, "pending")
                /\ UNCHANGED <<loading, authReady>>
        /\ UNCHANGED isRefreshingRef

\* AuthContext.tsx:147-151: the interval fires; it exists while the auth
\* state is ready and a user is signed in (145).
IntervalTick ==
    /\ authReady /\ user # null
    /\ Len(running) < MaxRunning
    /\ refreshSession(Append(running, Waiting("interval", "")),
                      Len(running) + 1, FALSE)
    /\ UNCHANGED <<user, authSession>>

\* AuthContext.tsx:88-97: the store has answered loadAuth.
LoadAuthRead(i) ==
    /\ i \in 1..Len(running)
    /\ running[i].at = "loadAuth:getAuthSession"
    /\ IF authSession = null
       THEN /\ authReady' = TRUE
            /\ running' = Without(running, i)
            /\ UNCHANGED loading
       ELSE /\ loading' = TRUE
            /\ running' = [running EXCEPT ![i].at = "auth.verify",
                                          ![i].saved = authSession]
            /\ UNCHANGED authReady
    /\ RanAuth("loadAuth", running[i], "")
    /\ UNCHANGED <<user, isRefreshingRef, authSession, overlapped>>

\* AuthContext.tsx:97-98 and 29-35: auth.verify has resolved; applyAuthState
\* sets the user and writes the store.
VerifySettled(i, data) ==
    /\ i \in 1..Len(running)
    /\ running[i].at = "auth.verify"
    /\ user' = data.user
    /\ running' = [running EXCEPT ![i].at = "setAuthSession", ![i].data = data]
    /\ RanAuth("loadAuth", running[i], "")
    /\ UNCHANGED <<loading, authReady, isRefreshingRef, authSession, overlapped>>

\* AuthContext.tsx:99-100: auth.verify has rejected; the startup fallback.
VerifyFailed(i) ==
    /\ i \in 1..Len(running)
    /\ running[i].at = "auth.verify"
    /\ refreshSession(running, i, TRUE)
    /\ UNCHANGED <<user, authSession>>

\* AuthContext.tsx:118-125: a deep link with a code opens the application.
OpenUrl ==
    /\ Len(running) < MaxRunning
    /\ loading' = TRUE
    /\ running' = Append(running, Waiting("login", "auth.login"))
    /\ RanAuth("handleUrl", Waiting("login", "auth.login"), "")
    /\ UNCHANGED <<user, authReady, isRefreshingRef, authSession, overlapped>>

\* AuthContext.tsx:74-75 and 29-35: auth.login has resolved.
LoginSettled(i, data) ==
    /\ i \in 1..Len(running)
    /\ running[i].at = "auth.login"
    /\ user' = data.user
    /\ running' = [running EXCEPT ![i].at = "setAuthSession", ![i].data = data]
    /\ RanAuth("loginMutation.onSuccess", running[i], "")
    /\ UNCHANGED <<loading, authReady, isRefreshingRef, authSession, overlapped>>

\* AuthContext.tsx:79-82: auth.login has rejected.
LoginFailed(i) ==
    /\ i \in 1..Len(running)
    /\ running[i].at = "auth.login"
    /\ loading' = FALSE
    /\ running' = Without(running, i)
    /\ RanAuth("loginMutation.onError", running[i], "")
    /\ UNCHANGED <<user, authReady, isRefreshingRef, authSession, overlapped>>

\* AuthContext.tsx:34 and 98-104: the store has taken the session that
\* loadAuth verified.
LoadAuthStored(i) ==
    /\ i \in 1..Len(running)
    /\ running[i].at = "setAuthSession" /\ running[i].fn = "loadAuth"
    /\ authSession' = running[i].data
    /\ Finish(running, i)
    /\ RanAuth("loadAuth", running[i], "")
    /\ UNCHANGED <<user, isRefreshingRef, overlapped>>

\* AuthContext.tsx:34 and 75-76: the store has taken the session of the
\* login; onSuccess enters refreshSession.  applyAuthState has written the
\* store before refreshSession looks at it.
LoginStored(i) ==
    /\ i \in 1..Len(running)
    /\ running[i].at = "setAuthSession" /\ running[i].fn = "login"
    /\ refreshSession(running, i, FALSE)
    /\ authSession' = running[i].data
    /\ UNCHANGED user

\* AuthContext.tsx:51-59: the store has answered refreshSession; without a
\* stored jwt the auth state is cleared, else the guard is set and the
\* refresh request is issued.
StoredSessionRead(i) ==
    /\ i \in 1..Len(running)
    /\ running[i].at = "getAuthSession"
    /\ IF authSession = null
       THEN /\ user' = null
            /\ running' = [running EXCEPT ![i].at = "clearAuthState"]
            /\ UNCHANGED isRefreshingRef
       ELSE /\ isRefreshingRef' = TRUE
            /\ running' = [running EXCEPT ![i].at = "auth.refresh",
                                          ![i].saved = authSession]
            /\ UNCHANGED user
    /\ RanAuth("refreshSession.getAuthSession", running[i], "pending")
    /\ UNCHANGED <<loading, authReady, authSession, overlapped>>

\* AuthContext.tsx:53-54: the store is cleared, refreshSession returns false.
ClearedWithoutSession(i) ==
    /\ i \in 1..Len(running)
    /\ running[i].at = "clearAuthState"
    /\ authSession' = null
    /\ Finish(running, i)
    /\ RanAuth("refreshSession.clearAuthState", running[i], "false")
    /\ UNCHANGED <<user, isRefreshingRef, overlapped>>

\* AuthContext.tsx:59-60 and 29-35: auth.refresh has resolved.
RefreshSettled(i, data) ==
    /\ i \in 1..Len(running)
    /\ running[i].at = "auth.refresh"
    /\ user' = data.user
    /\ running' = [running EXCEPT ![i].at = "applyAuthState", ![i].data = data]
    /\ RanAuth("refreshSession.refresh", running[i], "pending")
    /\ UNCHANGED <<loading, authReady, isRefreshingRef, authSession, overlapped>>

\* AuthContext.tsx:60-61 and 68-70: the store has taken the refreshed
\* session; refreshSession returns true through its finally.
RefreshStored(i) ==
    /\ i \in 1..Len(running)
    /\ running[i].at = "applyAuthState"
    /\ authSession' = running[i].data
    /\ isRefreshingRef' = FALSE
    /\ Finish(running, i)
    /\ RanAuth("refreshSession.applyAuthState", running[i], "true")
    /\ UNCHANGED <<user, overlapped>>

\* AuthContext.tsx:62-70: auth.refresh has rejected with the code.
RefreshFailed(i, code) ==
    /\ i \in 1..Len(running)
    /\ running[i].at = "auth.refresh"
    /\ IF running[i].clearOnAnyFailure \/ code = "UNAUTHORIZED"
       THEN /\ user' = null
            /\ running' = [running EXCEPT ![i].at = "catch:clearAuthState"]
            /\ RanAuth("refreshSession.catch",
                       [running[i] EXCEPT !.data = code], "pending")
            /\ UNCHANGED <<loading, authReady, isRefreshingRef>>
       ELSE /\ isRefreshingRef' = FALSE
            /\ Finish(running, i)
            /\ RanAuth("refreshSession.catch",
                       [running[i] EXCEPT !.data = code], "false")
            /\ UNCHANGED user
    /\ UNCHANGED <<authSession, overlapped>>

\* AuthContext.tsx:65-70: the store is cleared after the failure;
\* refreshSession returns false through its finally.
ClearedAfterFailure(i) ==
    /\ i \in 1..Len(running)
    /\ running[i].at = "catch:clearAuthState"
    /\ authSession' = null
    /\ isRefreshingRef' = FALSE
    /\ Finish(running, i)
    /\ RanAuth("refreshSession.catch.clearAuthState", running[i], "false")
    /\ UNCHANGED <<user, overlapped>>

AuthNext ==
    \/ IntervalTick
    \/ OpenUrl
    \/ \E i \in 1..MaxRunning : LoadAuthRead(i)
    \/ \E i \in 1..MaxRunning, jwt \in Jwts : VerifySettled(i, Session(jwt))
    \/ \E i \in 1..MaxRunning : VerifyFailed(i)
    \/ \E i \in 1..MaxRunning, jwt \in Jwts : LoginSettled(i, Session(jwt))
    \/ \E i \in 1..MaxRunning : LoginFailed(i)
    \/ \E i \in 1..MaxRunning : LoadAuthStored(i)
    \/ \E i \in 1..MaxRunning : LoginStored(i)
    \/ \E i \in 1..MaxRunning : StoredSessionRead(i)
    \/ \E i \in 1..MaxRunning : ClearedWithoutSession(i)
    \/ \E i \in 1..MaxRunning, jwt \in Jwts : RefreshSettled(i, Session(jwt))
    \/ \E i \in 1..MaxRunning : RefreshStored(i)
    \/ \E i \in 1..MaxRunning, code \in ErrorCodes : RefreshFailed(i, code)
    \/ \E i \in 1..MaxRunning : ClearedAfterFailure(i)

AuthSpec == AuthInit /\ [][AuthNext]_vars

\* refreshSession has just been entered; a refresh rejection has just been
\* handled; the store has just been cleared after one.
RefreshEntered == ran # <<>> /\ ran[1].task = "refreshSession"
RefreshRejected == ran # <<>> /\ ran[1].task = "refreshSession.catch"
ClearedAfterRejection ==
    ran # <<>> /\ ran[1].task = "refreshSession.catch.clearAuthState"
ClearsOnFailure ==
    ran[1].input[1].clearOnAnyFailure \/ ran[1].input[1].data = "UNAUTHORIZED"

\* C40: at most one refresh request is in flight at any time, whatever the
\* interleaving of the refreshSession calls of the interval, the login and
\* the startup fallback; a call that finds isRefreshingRef set returns false
\* and issues no request; and a rejected refresh clears the user and the
\* stored session when the code is UNAUTHORIZED or clearOnAnyFailure is set,
\* and otherwise leaves the user and the stored session as they were.
C40_SingleFlight ==
    /\ Cardinality(RefreshRequests(running)) <= 1
    /\ (RefreshEntered /\ ran[1].before.isRefreshingRef) =>
            /\ ran[1].outcome = "false"
            /\ Cardinality(RefreshRequests(running)) = ran[1].before.requests
    /\ RefreshRejected =>
            IF ClearsOnFailure
            THEN /\ user = null
                 /\ \E i \in 1..Len(running) : running[i].at = "catch:clearAuthState"
            ELSE /\ user = ran[1].before.user
                 /\ authSession = ran[1].before.authSession
                 /\ ran[1].outcome = "false"
    /\ ClearedAfterRejection => (authSession = null /\ ran[1].outcome = "false")
\* The same, while no call has passed the guard during another call's read
\* of the stored session.
C40_OnCallsThatDoNotOverlap ==
    ~overlapped => C40_SingleFlight
\* Two refresh requests in flight.
C40_TwoRequests ==
    Cardinality(RefreshRequests(running)) = 2

====
